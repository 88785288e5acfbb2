------------------------------ MODULE Notifier ------------------------------
(***************************************************************************)
(* The WhatsApp notifier of a server process: one browser client at a time *)
(* that is started, sends events at any moment, is lost and replaced; the  *)
(* reconnect timer, administrators who reconnect or reset it, shutdown.    *)
(* One action is what JavaScript runs between two awaits.  What only the   *)
(* status page shows (QR code, errors, dates) is left out.                 *)
(***************************************************************************)
EXTENDS Integers, Sequences

CONSTANTS
  Operators,   \* reconnects, resets and shutdowns at work at once
  MaxClients   \* bound on the clients of one process

ASSUME ClientsAssumption == MaxClients \in Nat \ {0}

VARIABLES
  notifier,    \* the module's variables: client, initPromise, timer and flags
  life,        \* what became of each client; clients are numbered, 0 is none
  task         \* the operations at work

notifierVars == <<notifier, life, task>>

-----------------------------------------------------------------------------
Lives == {"starting", "running", "ready", "lost", "gone"}
Unoccupied == [op |-> "none", pc |-> "none", old |-> 0]

\* One client is being initialised when the server has started.
Booted == [client |-> 1, pending |-> 1, timer |-> FALSE, should |-> TRUE,
           ready |-> FALSE, initing |-> TRUE]

\* resetRuntimeState
Quiet(n) == [n EXCEPT !.ready = FALSE, !.initing = FALSE]

\* clearReconnectTimer, and no reconnection while the operation lasts.
Suspended(n) == [n EXCEPT !.timer = FALSE, !.should = FALSE]

\* Mutant: a timer only when a client was ready.
SchedulesWhenReady(n) == [n EXCEPT !.timer = @ \/ (n.should /\ n.ready)]

\* scheduleReconnect
Schedules(n) == [n EXCEPT !.timer = @ \/ n.should]

\* initializeWhatsAppClient, with the variables and lives as they are by now:
\* nothing new while a client is being initialised or in use.
Busy(n) == n.pending # 0 \/ (n.client # 0 /\ (n.ready \/ n.initing))

Initialise(n, lives) ==
  IF Busy(n) THEN notifier' = n /\ life' = lives
  ELSE LET c == Len(lives) + 1
       IN /\ c <= MaxClients
          /\ notifier' = [n EXCEPT !.client = c, !.pending = c, !.should = TRUE,
                                   !.initing = TRUE, !.ready = FALSE]
          /\ life' = Append(lives, "starting")

-----------------------------------------------------------------------------
(* The clients: initialize() settles, events arrive *)

ClientStarts(c) ==
  /\ notifier.pending = c /\ life[c] # "gone"
  /\ notifier' = [notifier EXCEPT !.pending = 0]
  /\ life' = [life EXCEPT ![c] = IF @ = "starting" THEN "running" ELSE @]
  /\ UNCHANGED task

ClientFails(c) ==
  /\ notifier.pending = c
  /\ notifier' = [Quiet(notifier) EXCEPT !.pending = 0,
                                         !.client = IF @ = c THEN 0 ELSE @]
  /\ life' = [life EXCEPT ![c] = "gone"]
  /\ UNCHANGED task

Readies(c) ==
  /\ life[c] \in {"starting", "running"}
  /\ notifier' = [notifier EXCEPT !.ready = TRUE, !.initing = FALSE]
  /\ life' = [life EXCEPT ![c] = "ready"]
  /\ UNCHANGED task

AuthFails(c) ==
  /\ life[c] \in {"starting", "running"}
  /\ notifier' = Quiet(notifier)
  /\ UNCHANGED <<life, task>>

Disconnects(c) ==
  /\ life[c] \in {"starting", "running", "ready"}
  /\ notifier' = Schedules(Quiet(notifier))
  /\ life' = [life EXCEPT ![c] = "lost"]
  /\ UNCHANGED task

-----------------------------------------------------------------------------
(* Reconnecting, resetting, closing *)

Closing == \E o \in Operators : task[o].op = "close"

Goes(o, op, pc, old) == task' = [task EXCEPT ![o] = [op |-> op, pc |-> pc, old |-> old]]
Done(o) == task' = [task EXCEPT ![o] = Unoccupied]

\* Once the client is destroyed: a reset still clears the session, the server exits.
Proceeds(o, op, n, lives) ==
  IF op = "reconnect"
    THEN Initialise([n EXCEPT !.should = TRUE], lives) /\ Done(o)
    ELSE /\ Goes(o, op, IF op = "reset" THEN "clear" ELSE "exit", 0)
         /\ notifier' = n /\ life' = lives

\* destroyCurrentClient: at once when there is none.
DestroyCurrent(o, op, n) ==
  IF n.client = 0
    THEN Proceeds(o, op, Quiet(n), life)
    ELSE /\ notifier' = [n EXCEPT !.client = 0]
         /\ Goes(o, op, "destroy", n.client) /\ UNCHANGED life

\* destroy() of a client whose browser is not up yet fails, and it goes on starting.
Destroyed(o, fails) ==
  LET c == task[o].old
  IN /\ task[o].pc = "destroy"
     /\ fails => life[c] = "starting"
     /\ Proceeds(o, task[o].op, Quiet(notifier),
                 IF fails THEN life ELSE [life EXCEPT ![c] = "gone"])

\* The timer has run out.
TimerFires(o) ==
  /\ notifier.timer /\ task[o] = Unoccupied
  /\ DestroyCurrent(o, "reconnect", Suspended(notifier))

AdminReconnects(o) ==
  /\ task[o] = Unoccupied /\ ~Closing
  /\ DestroyCurrent(o, "reconnect", Suspended(notifier))

\* A client that is ready is logged out first.
AdminResets(o) ==
  /\ task[o] = Unoccupied /\ ~Closing
  /\ IF notifier.client # 0 /\ notifier.ready
       THEN notifier' = Suspended(notifier) /\ Goes(o, "reset", "logout", 0) /\ UNCHANGED life
       ELSE DestroyCurrent(o, "reset", Suspended(notifier))

LoggedOut(o) ==
  /\ task[o].pc = "logout"
  /\ DestroyCurrent(o, "reset", notifier)

\* clearLocalSession has succeeded or failed.
SessionCleared(o) ==
  /\ task[o].pc = "clear"
  /\ Initialise([notifier EXCEPT !.should = TRUE], life)
  /\ Done(o)

\* destroyWhatsAppClient, once the server takes no more requests.
Shutdown(o) ==
  /\ task[o] = Unoccupied /\ ~Closing
  /\ DestroyCurrent(o, "close", Suspended(notifier))

\* The process ends, by shutdown or by accident, and is started again.
Restarts ==
  /\ notifier' = Booted /\ life' = <<"starting">>
  /\ task' = [o \in Operators |-> Unoccupied]

-----------------------------------------------------------------------------
NotifierInit ==
  /\ notifier = Booted /\ life = <<"starting">>
  /\ task = [o \in Operators |-> Unoccupied]

NotifierNext ==
  \/ \E c \in DOMAIN life :
       ClientStarts(c) \/ ClientFails(c) \/ Readies(c) \/ AuthFails(c) \/ Disconnects(c)
  \/ \E o \in Operators :
       \/ TimerFires(o) \/ AdminReconnects(o) \/ AdminResets(o) \/ Shutdown(o)
       \/ LoggedOut(o) \/ SessionCleared(o)
       \/ \E b \in BOOLEAN : Destroyed(o, b)
  \/ Restarts

NotifierSpec == NotifierInit /\ [][NotifierNext]_notifierVars

-----------------------------------------------------------------------------
NotifierTypeOK ==
  /\ notifier \in [client: 0..MaxClients, pending: 0..MaxClients,
                   timer: BOOLEAN, should: BOOLEAN, ready: BOOLEAN, initing: BOOLEAN]
  /\ life \in Seq(Lives) /\ Len(life) \in 1..MaxClients
  /\ DOMAIN task = Operators

\* A client that was lost is not left in place: a timer runs, another client is
\* being initialised, or an operation is about to replace it.
LostIsReplaced ==
  notifier.client # 0 /\ life[notifier.client] = "lost"
    => \/ notifier.timer \/ notifier.pending # 0
       \/ \E o \in Operators : task[o] # Unoccupied

=============================================================================
