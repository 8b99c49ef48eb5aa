------------------------------ MODULE Shutdown ------------------------------
(***************************************************************************)
(* The life of the process around the relays: src/lifecycle.js and the     *)
(* bootstrap at the end of index.js.  A signal stops the server from       *)
(* listening, closes the idle connections and arms a timer; the process    *)
(* leaves with 0 once the last connection has gone, or with 1 when the     *)
(* timer or an error comes first.  A restart begins with empty counters.   *)
(*                                                                         *)
(* The relays are those of RelaySlots.  A response belongs to one          *)
(* connection, which may stay behind, idle, when the response has closed;  *)
(* on such a connection requests still arrive after the server has stopped *)
(* listening.                                                              *)
(***************************************************************************)
EXTENDS RelaySlots

VARIABLES
    process,        \* "up", "draining", or gone with the code of its exit
    shuttingDown,   \* what isShuttingDown() returns
    forced,         \* the forced-exit timer is armed
    parked          \* connections that are open and idle

shutdownVars == <<process, shuttingDown, forced, parked>>
allVars == <<vars, shutdownVars>>

Gone == {"exit0", "exit1"}
Open == {r \in Request : phase[r] # "idle"}

-----------------------------------------------------------------------------
(* What a signal leaves armed and what the timer exits with; the Fault     *)
(* forms are seeded bugs.                                                  *)

FaultArmed == forced
Armed == TRUE

FaultForcedExit == "exit0"
ForcedExit == "exit1"

ShutdownInit ==
    /\ Init
    /\ process = "up"
    /\ shuttingDown = FALSE
    /\ forced = FALSE
    /\ parked = {}

-----------------------------------------------------------------------------
(* A request arrives on a new connection while the server listens, or on   *)
(* one that was parked.  It is a relay or any other request of RelaySlots. *)
Arrive(r) ==
    /\ process = "up" \/ (process = "draining" /\ r \in parked)
    /\ \/ AnswerBadRequest(r)
       \/ \E a \in Account, c \in Client : RefuseRelay(r, a, c) \/ StartRelay(r, a, c)
    /\ parked' = parked \ {r}
    /\ UNCHANGED <<process, shuttingDown, forced>>

(* A response closes; its connection goes with it or stays behind.         *)
Leave(r) ==
    /\ process \notin Gone
    /\ CloseResponse(r)
    /\ parked' \in {parked, parked \cup {r}}
    /\ UNCHANGED <<process, shuttingDown, forced>>

(* The client or KEEPALIVE_TIMEOUT_MS closes an idle connection.           *)
Unpark(r) ==
    /\ process \notin Gone
    /\ r \in parked
    /\ parked' = parked \ {r}
    /\ UNCHANGED <<vars, process, shuttingDown, forced>>

(* SIGTERM or SIGINT; a second one finds started set and changes nothing.  *)
Signal ==
    /\ process = "up"
    /\ process' = "draining"
    /\ shuttingDown' = TRUE
    /\ forced' = Armed
    /\ parked' = {}
    /\ UNCHANGED vars

(* The callback of server.close(), once the last connection has gone.      *)
Drained ==
    /\ process = "draining"
    /\ Open = {} /\ parked = {}
    /\ process' = "exit0"
    /\ forced' = FALSE
    /\ UNCHANGED <<vars, shuttingDown, parked>>

TimedOut ==
    /\ process = "draining"
    /\ forced
    /\ process' = ForcedExit
    /\ UNCHANGED <<vars, shuttingDown, forced, parked>>

(* An error of the server, an uncaught exception, an unhandled rejection.  *)
Crash ==
    /\ process \notin Gone
    /\ process' = "exit1"
    /\ UNCHANGED <<vars, shuttingDown, forced, parked>>

(* The platform starts the process again: every counter was in its memory. *)
Restart ==
    /\ process \in Gone
    /\ process' = "up"
    /\ shuttingDown' = FALSE
    /\ forced' = FALSE
    /\ parked' = {}
    /\ proxyInFlight' = [a \in {} |-> 0]
    /\ proxyInFlightByClient' = [c \in {} |-> 0]
    /\ total' = 0
    /\ phase' = [r \in Request |-> "idle"]
    /\ counted' = [r \in Request |-> FALSE]
    /\ UNCHANGED <<limit, account, client>>

ShutdownNext ==
    \/ \E r \in Request : Arrive(r) \/ Leave(r) \/ Unpark(r)
    \/ Signal \/ Drained \/ TimedOut \/ Crash \/ Restart

(* A timer that is armed fires, and a server that has closed calls back.   *)
(* No fairness on the players: a relay may stay open for ever.             *)
ShutdownSpec ==
    /\ ShutdownInit /\ [][ShutdownNext]_allVars
    /\ WF_allVars(TimedOut) /\ WF_allVars(Drained)

-----------------------------------------------------------------------------
(* The exit code tells the platform the truth: it is 0 only when no        *)
(* response was cut off, by the process that was asked to stop and by no   *)
(* other (createShutdownHandler: "this is an ungraceful shutdown and the   *)
(* platform should know").                                                 *)
CleanExitDropsNothing ==
    process = "exit0" => Open = {} /\ parked = {} /\ shuttingDown

(* A process that was told to stop stops, though relays stay open for      *)
(* ever, requests keep arriving on old connections and signals repeat.     *)
ShutdownEnds == process = "draining" ~> process \in Gone
=============================================================================
