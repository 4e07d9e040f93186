--------------------------- MODULE LeaderElection ---------------------------
(***************************************************************************)
(* Leader election among the schedulers: internal/scheduler/leader.go and  *)
(* the loop of cmd/scheduler/main.go.                                      *)
(*                                                                         *)
(* The leader holds a PostgreSQL advisory lock through a connection that   *)
(* it keeps out of its pool.  The lock belongs to the server's session and *)
(* is given up by pg_advisory_unlock or when the server notices that the   *)
(* session has ended.  A process identifies its session: it asks for the   *)
(* lock only while it has no connection of its own.                        *)
(***************************************************************************)
EXTENDS Faults

CONSTANTS
  Schedulers,   \* the scheduler processes
  NoScheduler   \* nobody

ASSUME LeaderElectionAssumption == NoScheduler \notin Schedulers

VARIABLES
  main,        \* where main is: its loop, the deferred calls, or not running
  conn,        \* elector.conn: nil, a connection, or one that has failed
  running,     \* running
  signalled,   \* ctx is done
  cancelled,   \* loopCtx is done
  lock         \* server: the process whose session holds schedulerLockID

processVars == <<main, conn, running, signalled, cancelled>>
electionVars == <<processVars, lock, faults>>

ElectionTypeOK ==
  /\ main \in [Schedulers -> {"down", "loop", "closing"}]
  /\ conn \in [Schedulers -> {"nil", "open", "failed"}]
  /\ running \in [Schedulers -> BOOLEAN]
  /\ signalled \in [Schedulers -> BOOLEAN]
  /\ cancelled \in [Schedulers -> BOOLEAN]
  /\ lock \in Schedulers \cup {NoScheduler}
  /\ FaultsTypeOK

ElectionInit ==
  /\ main = [s \in Schedulers |-> "loop"]
  /\ conn = [s \in Schedulers |-> "nil"]
  /\ running = [s \in Schedulers |-> FALSE]
  /\ signalled = [s \in Schedulers |-> FALSE]
  /\ cancelled = [s \in Schedulers |-> FALSE]
  /\ lock = NoScheduler
  /\ FaultsInit

-----------------------------------------------------------------------------
\* Variant of Granted: the answer of pg_try_advisory_lock is not looked at.
GrantedAlways(s) == TRUE

\* pg_try_advisory_lock answers true.
Granted(s) == lock = NoScheduler

\* A tick of campaignTicker on which the lock is granted.  Acquire fails once ctx
\* is done, but not when only loopCtx is: select may still choose the ticker then.
Campaign(s) ==
  /\ main[s] = "loop"
  /\ ~running[s]
  /\ ~signalled[s]
  /\ Granted(s)
  /\ lock' = s
  /\ conn' = [conn EXCEPT ![s] = "open"]
  /\ running' = [running EXCEPT ![s] = TRUE]
  /\ NoFault
  /\ UNCHANGED <<main, signalled, cancelled>>

\* Any other tick: running, a failed Acquire, or a lock that is not granted, after
\* which the connection is released.
IdleTick(s) ==
  /\ main[s] = "loop"
  /\ running[s] \/ signalled[s] \/ ~Granted(s)
  /\ UNCHANGED electionVars

\* Variant of ConnAfterError: the error path forgets to release the connection.
ConnKept(s) == "open"

\* conn.Release() of the error path.
ConnAfterError(s) == conn[s]

\* The lock is granted and the connection fails before the answer arrives.
CampaignError(s) ==
  /\ main[s] = "loop"
  /\ ~running[s]
  /\ ~signalled[s]
  /\ Granted(s)
  /\ lock' = s
  /\ conn' = [conn EXCEPT ![s] = ConnAfterError(s)]
  /\ Fault("campaign_error")
  /\ UNCHANGED <<main, running, signalled, cancelled>>

\* SIGTERM or SIGINT: ctx is done, and loopCtx, which is derived from it.
Signal(s) ==
  /\ main[s] = "loop"
  /\ ~signalled[s]
  /\ signalled' = [signalled EXCEPT ![s] = TRUE]
  /\ cancelled' = [cancelled EXCEPT ![s] = TRUE]
  /\ Fault("signal")
  /\ UNCHANGED <<main, conn, running, lock>>

\* The heartbeat consumer returns an error; its goroutine calls cancelLoops.
ConsumerFails(s) ==
  /\ main[s] = "loop"
  /\ ~cancelled[s]
  /\ cancelled' = [cancelled EXCEPT ![s] = TRUE]
  /\ Fault("consumer_error")
  /\ UNCHANGED <<main, conn, running, signalled, lock>>

\* Variant of ConnAfterResign: l.conn is not reset.
ConnNotReset(s) == conn[s]

\* l.conn.Release(); l.conn = nil.
ConnAfterResign(s) == "nil"

\* pg_advisory_unlock, which fails on a connection that has failed.
Unlocked(s) == IF conn[s] = "open" /\ lock = s THEN NoScheduler ELSE lock

\* select takes <-ctx.Done(): the process resigns and main returns.
ShutDown(s) ==
  /\ main[s] = "loop"
  /\ signalled[s]
  /\ lock' = Unlocked(s)
  /\ conn' = [conn EXCEPT ![s] = ConnAfterResign(s)]
  /\ main' = [main EXCEPT ![s] = "closing"]
  /\ NoFault
  /\ UNCHANGED <<running, signalled, cancelled>>

\* select takes <-loopCtx.Done(), which after a signal is ready as well: main
\* returns and the elector keeps its connection.
LoopStopped(s) ==
  /\ main[s] = "loop"
  /\ cancelled[s]
  /\ main' = [main EXCEPT ![s] = "closing"]
  /\ NoFault
  /\ UNCHANGED <<conn, running, signalled, cancelled, lock>>

\* The process is gone: nothing of it is left but its session at the server.
Gone(s) ==
  /\ main' = [main EXCEPT ![s] = "down"]
  /\ conn' = [conn EXCEPT ![s] = "nil"]
  /\ running' = [running EXCEPT ![s] = FALSE]
  /\ signalled' = [signalled EXCEPT ![s] = FALSE]
  /\ cancelled' = [cancelled EXCEPT ![s] = FALSE]
  /\ UNCHANGED lock

\* database.Close(), deferred: it waits until every connection is back in the
\* pool, then the process ends.
Close(s) ==
  /\ main[s] = "closing"
  /\ conn[s] = "nil"
  /\ Gone(s)
  /\ NoFault

Kill(s) ==
  /\ main[s] # "down"
  /\ Gone(s)
  /\ Fault("kill")

Start(s) ==
  /\ main[s] = "down"
  /\ main' = [main EXCEPT ![s] = "loop"]
  /\ NoFault
  /\ UNCHANGED <<conn, running, signalled, cancelled, lock>>

\* The leader's connection fails; no code looks at it before Resign.
ConnectionFails(s) ==
  /\ conn[s] = "open"
  /\ conn' = [conn EXCEPT ![s] = "failed"]
  /\ Fault("connection_lost")
  /\ UNCHANGED <<main, running, signalled, cancelled, lock>>

\* The server notices the end of a session and frees its lock.
SessionEnds(s) ==
  /\ lock = s
  /\ conn[s] # "open"
  /\ lock' = NoScheduler
  /\ NoFault
  /\ UNCHANGED processVars

-----------------------------------------------------------------------------
\* What main, the deferred calls and the server do by themselves.
Progress(s) ==
  \/ Campaign(s)
  \/ ShutDown(s)
  \/ LoopStopped(s)
  \/ Close(s)
  \/ SessionEnds(s)

ElectionNext == \E s \in Schedulers :
  \/ Progress(s)
  \/ IdleTick(s)
  \/ CampaignError(s)
  \/ Signal(s)
  \/ ConsumerFails(s)
  \/ Kill(s)
  \/ Start(s)
  \/ ConnectionFails(s)

\* The ticker fires every 3 s, and select takes a branch that is ready.
ElectionFairness == \A s \in Schedulers :
  /\ WF_electionVars(Campaign(s))
  /\ WF_electionVars(ShutDown(s) \/ LoopStopped(s))
  /\ WF_electionVars(Close(s))
  /\ WF_electionVars(SessionEnds(s))

ElectionSpec == ElectionInit /\ [][ElectionNext]_electionVars /\ ElectionFairness

-----------------------------------------------------------------------------
\* The dispatcher and the monitor of s run.
Leads(s) == main[s] = "loop" /\ running[s] /\ ~cancelled[s]

\* The connection the elector keeps, as long as it works, is the session that
\* holds the lock, a process whose loop runs as leader has one, and a restarted
\* process does not believe that it leads (leader.go, main.go).
ElectionInv ==
  /\ ElectionTypeOK
  /\ \A s \in Schedulers :
       /\ conn[s] = "open" => lock = s
       /\ main[s] = "loop" /\ running[s] => conn[s] # "nil"
       /\ main[s] = "down" => ~running[s]

\* Two processes dispatch and sweep at the same time only when the connection of
\* one of them has failed: a leader stops its loops before anything else frees the
\* lock (main.go, leader.go).
AtMostOneLeader ==
  \A s, t \in Schedulers :
    Leads(s) /\ Leads(t) /\ conn[s] # "failed" /\ conn[t] # "failed" => s = t

\* main has returned without Resign: database.Close waits for the connection that
\* the elector keeps, and the lock stays with a process that does nothing.
Hangs(s) == main[s] = "closing" /\ conn[s] # "nil"

\* In the end some process dispatches jobs and sweeps workers for good, unless one
\* hangs for good (main.go: the schedulers that do not lead keep campaigning).
SomeoneLeads ==
  \/ <>[](\E s \in Schedulers : Leads(s))
  \/ <>[](\E s \in Schedulers : Hangs(s))
=============================================================================
