--------------------------- MODULE LoServerThread ---------------------------
(***************************************************************************)
(* The thread that serves a server of liblo (server_thread.c).  The        *)
(* program starts it, stops it, which waits for it to end, and frees the   *)
(* server; the thread looks at st->active between two calls of             *)
(* lo_server_recv_noblock.  Nothing is locked.                             *)
(*                                                                         *)
(* A handler may call lo_server_thread_stop.  It runs on the thread        *)
(* itself, which cannot wait for itself: pthread_join fails, and st is     *)
(* marked as not active while the thread is still there.  Such a thread is *)
(* an orphan.                                                              *)
(***************************************************************************)
EXTENDS Integers

CONSTANT MaxThreads     \* bound: threads ever created

ASSUME ThreadAssumption == MaxThreads \in Nat \ {0}

Threads == 1 .. MaxThreads
NoThread == 0

VARIABLES
  active, done,   \* of st
  thread,         \* st->thread, or NoThread when pthread_create failed
  created,        \* how many threads there were
  pc,             \* where each thread is
  caller,         \* where the program is: "out", "stopping", "freeing" or,
                  \* after a join of no thread, "undefined"
  freed,          \* has it freed st?
  orphans         \* the threads that stopped themselves

threadVars == <<active, done, thread, created, pc, caller, freed, orphans>>

ThreadInit ==
  /\ active = FALSE /\ done = FALSE /\ thread = NoThread /\ created = 0
  /\ pc = [t \in Threads |-> "none"]
  /\ caller = "out" /\ freed = FALSE /\ orphans = {}

Alive(t) == pc[t] \notin {"none", "ended"}

----------------------------------------------------------------------------
(* the program *)

\* lo_server_thread_start, where st is marked as active before the thread is
\* created and stays so when that fails
StartFails ==
  /\ caller = "out" /\ ~freed /\ ~active
  /\ active' = TRUE /\ done' = FALSE /\ thread' = NoThread
  /\ UNCHANGED <<created, pc, caller, freed, orphans>>
Start ==
  /\ caller = "out" /\ ~freed /\ ~active /\ created < MaxThreads
  /\ active' = TRUE /\ done' = FALSE
  /\ created' = created + 1 /\ thread' = created + 1
  /\ pc' = [pc EXCEPT ![created + 1] = "init"]
  /\ UNCHANGED <<caller, freed, orphans>>

\* lo_server_thread_stop.  When no thread was created, st->thread is undefined
\* and so is joining it: the join may fail, or the program never get back.
Waits(why) ==
  /\ active' = FALSE
  /\ \/ thread # NoThread /\ caller' = why
     \/ thread = NoThread /\ caller' \in {"out", "undefined"}
\* Mutant: the thread is not waited for.
Stop_Fault ==
  /\ caller = "out" /\ ~freed /\ active
  /\ active' = FALSE
  /\ UNCHANGED <<caller, done, thread, created, pc, freed, orphans>>
Stop ==
  /\ caller = "out" /\ ~freed /\ active
  /\ Waits("stopping")
  /\ UNCHANGED <<done, thread, created, pc, freed, orphans>>
Joined ==
  /\ caller = "stopping" /\ pc[thread] = "ended" /\ caller' = "out"
  /\ UNCHANGED <<active, done, thread, created, pc, freed, orphans>>

\* lo_server_thread_free stops an active thread first.
Free ==
  /\ caller = "out" /\ ~freed
  /\ IF active
     THEN Waits("freeing") /\ freed' = (caller' = "out")
     ELSE freed' = TRUE /\ UNCHANGED <<active, caller>>
  /\ UNCHANGED <<done, thread, created, pc, orphans>>
FreeJoined ==
  /\ caller = "freeing" /\ pc[thread] = "ended" /\ caller' = "out" /\ freed' = TRUE
  /\ UNCHANGED <<active, done, thread, created, pc, orphans>>

----------------------------------------------------------------------------
(* thread_func *)

Moves(t, from, to) == pc[t] = from /\ pc' = [pc EXCEPT ![t] = to]

InitFails(t) ==
  /\ Moves(t, "init", "ended") /\ done' = TRUE
  /\ UNCHANGED <<active, thread, created, caller, freed, orphans>>
InitDone(t) ==
  /\ Moves(t, "init", "loop")
  /\ UNCHANGED <<active, done, thread, created, caller, freed, orphans>>
Enter(t) ==
  /\ active /\ Moves(t, "loop", "recv")
  /\ UNCHANGED <<active, done, thread, created, caller, freed, orphans>>
\* Mutant: the loop looks at done, not at active.
Leave_Fault(t) ==
  /\ done /\ Moves(t, "loop", "cleanup") /\ done' = TRUE
  /\ UNCHANGED <<active, thread, created, caller, freed, orphans>>
Leave(t) ==
  /\ ~active /\ Moves(t, "loop", "cleanup") /\ done' = TRUE
  /\ UNCHANGED <<active, thread, created, caller, freed, orphans>>

\* lo_server_recv_noblock waits for 10 ms at most.
Serve(t) ==
  /\ Moves(t, "recv", "loop")
  /\ UNCHANGED <<active, done, thread, created, caller, freed, orphans>>
\* A handler stops the thread that it runs on.
SelfStop(t) ==
  /\ pc[t] = "recv" /\ active /\ thread = t
  /\ active' = FALSE /\ orphans' = orphans \cup {t}
  /\ UNCHANGED <<done, thread, created, pc, caller, freed>>
Cleanup(t) ==
  /\ Moves(t, "cleanup", "ended")
  /\ UNCHANGED <<active, done, thread, created, caller, freed, orphans>>

ThreadFunc(t) ==
  InitFails(t) \/ InitDone(t) \/ Enter(t) \/ Leave(t) \/ Serve(t) \/ Cleanup(t)

ThreadNext ==
  \/ StartFails \/ Start \/ Stop \/ Joined \/ Free \/ FreeJoined
  \/ \E t \in Threads : ThreadFunc(t) \/ SelfStop(t)

\* The scheduler lets every thread go on, and a join return when it can.
ThreadFairness ==
  /\ WF_threadVars(Joined) /\ WF_threadVars(FreeJoined)
  /\ \A t \in Threads : WF_threadVars(ThreadFunc(t))
ThreadSpec == ThreadInit /\ [][ThreadNext]_threadVars /\ ThreadFairness
----------------------------------------------------------------------------
ThreadTypeOK ==
  /\ active \in BOOLEAN /\ done \in BOOLEAN /\ freed \in BOOLEAN
  /\ thread \in Threads \cup {NoThread} /\ created \in 0 .. MaxThreads
  /\ pc \in [Threads -> {"none", "init", "loop", "recv", "cleanup", "ended"}]
  /\ caller \in {"out", "stopping", "freeing", "undefined"}
  /\ orphans \subseteq Threads

\* Once lo_server_thread_stop or _free has returned, no thread uses the server,
\* unless it stopped itself: what the program then frees or changes is its own.
StoppedIsQuiet ==
  caller = "out" /\ ~active => \A t \in Threads : Alive(t) => t \in orphans

\* One thread serves a server, and it is the one that st names, unless one that
\* stopped itself is still there.
OneServes ==
  \A t \in Threads : Alive(t) => t \in orphans \/ (t = thread /\ ~freed)

\* What the program may rely on while it runs or has stopped the thread.
OneThread == StoppedIsQuiet /\ OneServes

\* Whoever stops or frees a server thread gets back, also when init failed; not
\* who does so after pthread_create failed.
StopReturns == caller \in {"stopping", "freeing"} ~> caller = "out"

\* lo_serverthread.h of lo_server_thread_free: "if currently running will stop
\* the associated thread".
FreeStops == freed => \A t \in Threads : ~Alive(t)
=============================================================================
