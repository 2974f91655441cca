------------------------------ MODULE Callbacks ------------------------------
(***************************************************************************)
(* The terminals of one runtime, on top of its interactions: a command the *)
(* agent wants to run is reserved, asked about like any other operation of  *)
(* the host, started and listed; the agent, its own exit or the close of    *)
(* the runtime ends it.                                                     *)
(*                                                                         *)
(* The close of the runtime first cancels its interactions (Sweep) and then *)
(* closes its terminals, before it ends tasks and sessions.                 *)
(***************************************************************************)
EXTENDS Interactions

CONSTANT MaxTerminals  \* terminals a runtime may have (4 in the code)

ASSUME CallbackAssumption == MaxTerminals \in Nat

VARIABLES
  (* TerminalManager *)
  terminal,   \* of each command: where create() stands, or the terminal it left
  withdrawn,  \* reservations aborted while their process was started or stopped
  leases,     \* commands that keep the service alive
  releasing,  \* terminals somebody releases: stopped, then forgotten
  closing,    \* the close of the terminals of the runtime
  (* outside *)
  process     \* of each command: the process behind its host

terminalVars == <<terminal, withdrawn, leases, releasing, closing, process>>
callbackVars == <<vars, terminalVars>>

Commands == {i \in Hosted : kind[i].request.operation = "execute"}

Reserved == {i \in Commands : terminal[i] \in {"reserved", "asking", "starting", "stopping"}}
Listed   == {i \in Commands : terminal[i] = "listed"}

CallbackInit ==
  /\ Init
  /\ terminal = [i \in Interaction |-> "none"]
  /\ withdrawn = {}
  /\ leases = {}
  /\ releasing = {}
  /\ closing = "no"
  /\ process = [i \in Interaction |-> "none"]

-----------------------------------------------------------------------------
(* create.                                                                 *)

\* Mutant of Reserve: the handle is not looked at again after the session was read.
ReserveLate(i) ==
  /\ i \in Commands /\ terminal[i] = "none"
  /\ closing # "waiting"
  /\ Cardinality(Reserved \cup Listed) < MaxTerminals
  /\ terminal' = [terminal EXCEPT ![i] = "reserved"]
  /\ leases' = leases \cup {i}
  /\ UNCHANGED <<vars, withdrawn, releasing, closing, process>>

\* The handle is still there, nobody closes the terminals, there is room: nothing
\* is awaited before the reservation.
Reserve(i) ==
  /\ i \in Commands /\ terminal[i] = "none"
  /\ live /\ closing # "waiting"
  /\ Cardinality(Reserved \cup Listed) < MaxTerminals
  /\ terminal' = [terminal EXCEPT ![i] = "reserved"]
  /\ leases' = leases \cup {i}
  /\ UNCHANGED <<vars, withdrawn, releasing, closing, process>>

\* create gives up, or its process has been stopped: the reservation ends.
Unreserve(i) ==
  /\ terminal' = [terminal EXCEPT ![i] = "over"]
  /\ leases' = leases \ {i}
  /\ UNCHANGED <<vars, withdrawn, releasing, closing, process>>

\* checkedPath: the directory is one of the session's, or the command is refused.
Check(i) ==
  /\ terminal[i] = "reserved"
  /\ \/ /\ \A path \in kind[i].request.paths : path \cap Roots(kind[i].chain[1]) # {}
        /\ terminal' = [terminal EXCEPT ![i] = "asking"]
        /\ UNCHANGED <<vars, withdrawn, leases, releasing, closing, process>>
     \/ Unreserve(i)

\* host: the policies or the user have answered.
Heard(i) == terminal[i] = "asking" /\ open[i] \in {"answered", "writing", "returned"}

Authorise(i) ==
  /\ Heard(i) /\ answer[i] = "accept"
  /\ terminal' = [terminal EXCEPT ![i] = "starting"]
  /\ UNCHANGED <<vars, withdrawn, leases, releasing, closing, process>>

\* The ask was refused, or could not be made.
Refuse(i) ==
  /\ \/ Heard(i) /\ answer[i] = "reject"
     \/ terminal[i] = "asking" /\ open[i] = "idle" /\ (~live \/ Cardinality(Pending) >= MaxPending)
  /\ Unreserve(i)

\* ProcessHost.start spawns the supervisor...
Spawn(i) ==
  /\ terminal[i] = "starting" /\ process[i] = "none"
  /\ process' = [process EXCEPT ![i] = "running"]
  /\ UNCHANGED <<vars, terminal, withdrawn, leases, releasing, closing>>

\* ...and fails, before that or when the process ends before it has reported itself, ...
StartFails(i) ==
  /\ terminal[i] = "starting" /\ process[i] \in {"none", "gone"}
  /\ Unreserve(i)

\* ...or once it has stopped a process that does not come up in time.
StartTimeout(i) ==
  /\ terminal[i] = "starting" /\ process[i] = "running"
  /\ terminal' = [terminal EXCEPT ![i] = "stopping"]
  /\ process' = [process EXCEPT ![i] = "told"]
  /\ UNCHANGED <<vars, withdrawn, leases, releasing, closing>>

\* Mutants of Started: the reservation is not looked at again, or its process is
\* left to itself.
StartedAnyway(i) ==
  /\ terminal[i] = "starting" /\ process[i] \in {"running", "gone"}
  /\ terminal' = [terminal EXCEPT ![i] = "listed"]
  /\ leases' = IF process[i] = "running" THEN leases ELSE leases \ {i}
  /\ UNCHANGED <<vars, withdrawn, releasing, closing, process>>

StartedGivenUp(i) ==
  /\ terminal[i] = "starting" /\ process[i] \in {"running", "gone"}
  /\ IF i \in withdrawn
     THEN /\ terminal' = [terminal EXCEPT ![i] = "stopping"]
          /\ UNCHANGED leases
     ELSE /\ terminal' = [terminal EXCEPT ![i] = "listed"]
          /\ leases' = IF process[i] = "running" THEN leases ELSE leases \ {i}
  /\ UNCHANGED <<vars, withdrawn, releasing, closing, process>>

\* The process is there: its terminal is listed and the lease goes with the process;
\* if the reservation was aborted meanwhile, the process is stopped first.
Started(i) ==
  /\ terminal[i] = "starting" /\ process[i] \in {"running", "gone"}
  /\ IF i \in withdrawn
     THEN /\ terminal' = [terminal EXCEPT ![i] = "stopping"]
          /\ process' = IF process[i] = "running" THEN [process EXCEPT ![i] = "told"] ELSE process
          /\ UNCHANGED leases
     ELSE /\ terminal' = [terminal EXCEPT ![i] = "listed"]
          /\ leases' = IF process[i] = "running" THEN leases ELSE leases \ {i}
          /\ UNCHANGED process
  /\ UNCHANGED <<vars, withdrawn, releasing, closing>>

Stopped(i) ==
  /\ terminal[i] = "stopping" /\ process[i] = "gone"
  /\ Unreserve(i)

-----------------------------------------------------------------------------
(* The end of a terminal.                                                  *)

\* The process ends by itself, or because its supervisor was told to stop it.
Exit(i) ==
  /\ process[i] \in {"running", "told"}
  /\ process' = [process EXCEPT ![i] = "gone"]
  /\ leases' = IF terminal[i] = "listed" THEN leases \ {i} ELSE leases
  /\ UNCHANGED <<vars, terminal, withdrawn, releasing, closing>>

\* ProcessHost.stop asks the supervisor to end the tree.
Told(set) == [i \in Interaction |-> IF i \in set /\ process[i] = "running" THEN "told" ELSE process[i]]

\* The agent kills the command; the terminal stays readable.
Kill(i) ==
  /\ i \in Listed
  /\ process' = Told({i})
  /\ UNCHANGED <<vars, terminal, withdrawn, leases, releasing, closing>>

\* The agent releases the terminal.
Release(i) ==
  /\ i \in Listed
  /\ releasing' = releasing \cup {i}
  /\ process' = Told({i})
  /\ UNCHANGED <<vars, terminal, withdrawn, leases, closing>>

Released(i) ==
  /\ i \in releasing \cap Listed /\ process[i] = "gone"
  /\ terminal' = [terminal EXCEPT ![i] = "over"]
  /\ UNCHANGED <<vars, withdrawn, leases, releasing, closing, process>>

\* close, when onClose comes to it: creations are aborted, which cancels their asks
\* as well; a process that is being started is waited for; terminals are released.
CloseTerminals ==
  /\ ~live /\ "all" \notin sweeps /\ closing = "no"
  /\ ~\E i \in Pending : <<i, "cancelled">> \in ending
  /\ LET given == {i \in Commands : terminal[i] \in {"reserved", "asking"}}
         asks  == {i \in given : open[i] \in {"read", "stored", "waiting"}}
     IN /\ terminal' = [i \in Interaction |-> IF i \in given THEN "over" ELSE terminal[i]]
        /\ leases' = leases \ given
        /\ aborted' = aborted \cup asks
        /\ ending' = ending \cup {<<i, "cancelled">> : i \in {j \in asks : open[j] # "read"}}
  /\ withdrawn' = {i \in Commands : terminal[i] \in {"starting", "stopping"}}
  /\ releasing' = releasing \cup Listed
  /\ process' = Told(Listed)
  /\ closing' = "waiting"
  /\ UNCHANGED <<recordVars, taskVars, promised, live, open, waiting, answer, region, verdict,
                 sweeps, reported, due>>

\* The creations it aborted have come to their end and what it listed is released:
\* onClose goes on to the tasks and the sessions.
TerminalsClosed ==
  /\ closing = "waiting"
  /\ withdrawn \cap Reserved = {} /\ releasing \cap Listed = {}
  /\ closing' = "done"
  /\ UNCHANGED <<vars, terminal, withdrawn, leases, releasing, process>>

\* The service dies: the supervisors see the end of their pipes and stop the trees.
CallbackRestart ==
  /\ Restart
  /\ terminal' = [i \in Interaction |-> "over"]
  /\ leases' = {}
  /\ closing' = "done"
  /\ process' = [i \in Interaction |-> IF process[i] = "none" THEN "none" ELSE "gone"]
  /\ UNCHANGED <<withdrawn, releasing>>

-----------------------------------------------------------------------------
Opened(i) == Check(i) \/ Authorise(i) \/ Refuse(i) \/ Spawn(i) \/ StartFails(i) \/ Started(i) \/ Stopped(i)

\* A command is asked about by its terminal only.
Around ==
  /\ Step
  /\ \A i \in Commands : open'[i] # open[i] /\ open[i] = "idle" => terminal[i] = "asking"
  /\ UNCHANGED terminalVars

CallbackNext ==
  \/ Around
  \/ \E i \in Commands :
       Reserve(i) \/ Opened(i) \/ StartTimeout(i) \/ Exit(i) \/ Kill(i) \/ Release(i) \/ Released(i)
  \/ CloseTerminals
  \/ TerminalsClosed
  \/ CallbackRestart

\* In addition to the fairness of the interactions: what was begun goes on, a
\* supervisor that was told to stop its tree does, the close of a runtime comes to
\* its terminals.  A command that nobody stops may run for ever.
CallbackFairness ==
  /\ Fairness
  /\ \A i \in Interaction :
       /\ WF_callbackVars(i \in Commands /\ (Opened(i) \/ Released(i)))
       /\ WF_callbackVars(i \in Commands /\ process[i] = "told" /\ Exit(i))
  /\ WF_callbackVars(CloseTerminals)
  /\ WF_callbackVars(TerminalsClosed)

CallbackSpec == CallbackInit /\ [][CallbackNext]_callbackVars /\ CallbackFairness

-----------------------------------------------------------------------------
(* Properties.                                                             *)

\* Terminals only take the values the code gives them.
TerminalTypeOK ==
  /\ terminal \in [Interaction ->
       {"none", "reserved", "asking", "starting", "stopping", "listed", "over"}]
  /\ withdrawn \cup leases \cup releasing \subseteq Commands
  /\ closing \in {"no", "waiting", "done"}
  /\ process \in [Interaction -> {"none", "running", "told", "gone"}]

\* When the close of a runtime goes on to its tasks and sessions, no command runs and
\* no terminal is reserved or listed, and none appears afterwards: neither one that
\* was being approved or started nor one whose request was still being looked up.
NoneSurvives ==
  closing = "done" =>
    \A i \in Commands : terminal[i] \in {"none", "over"} /\ process[i] \in {"none", "gone"}

\* The service is kept alive exactly by the commands that are being created or run.
CommandsAreLeased ==
  leases = Reserved \cup {i \in Listed : process[i] # "gone"}

\* A process runs only behind a terminal that is being started, stopped or listed; once
\* the terminals of a runtime are being closed its handle is gone, and whatever they
\* still have is withdrawn or being released.
ProcessHasTerminal ==
  /\ \A i \in Commands : terminal[i] \in {"none", "reserved", "asking", "over"} =>
       process[i] \in {"none", "gone"}
  /\ closing # "no" => ~live
  /\ closing = "waiting" => \A i \in Commands :
       \/ terminal[i] \in {"none", "over"}
       \/ terminal[i] \in {"starting", "stopping"} /\ i \in withdrawn
       \/ terminal[i] = "listed" /\ i \in releasing

\* What holds in every state, for the interactions and for the terminals.
CallbackInv ==
  /\ InteractionInv /\ TerminalTypeOK
  /\ NoneSurvives /\ CommandsAreLeased /\ ProcessHasTerminal

\* An ended ask is answered, and the close of a runtime gets past its terminals,
\* unless the service dies first.
CallbacksEnd ==
  /\ EndedAskReturns
  /\ (~live) ~> (closing = "done")
=============================================================================
