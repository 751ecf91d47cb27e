------------------------------ MODULE Sidecar ------------------------------
(***************************************************************************)
(* The inference sidecar (safetee-demo sidecar.rs), its browser clients    *)
(* (static/index.html) and the key server: sessions with one waiting frame *)
(* each, a loop that dispatches up to batch_size of them, a task for every  *)
(* dispatched frame, and the cache of vetKeys the tasks share.             *)
(*                                                                         *)
(* A client draws its nonce and its public key together, so a session and  *)
(* its nonce have one name. Frames are numbered by their arrival as well:  *)
(* seq is a history, the code has only the client's frame_id. A transport  *)
(* key is named by the request it was made for. Time is two flags: fresh,  *)
(* that a session was used in the last 300 seconds, and cleanup_due, that  *)
(* the last cleanup is more than 60 seconds ago.                           *)
(***************************************************************************)
EXTENDS KeyServer, FiniteSets, FiniteSetsExt

CONSTANTS
  Pk,      \* the sessions' public keys
  Setups   \* bound: how the programs are started and how much happens

(* A setup gives --batch-size; whether the key server wants the attestation; what
   the sidecar collects; whether calls to the key server and to vLLM may fail;
   how many frames each client sends in a run, none if it stays away; how often a client and the key
   server are started and how many calls of POST /infer run at once at most;
   and whether sessions age and the cleanup comes due.                     *)
ASSUME SidecarAssumption ==
  \A s \in Setups :
    /\ s.batch_size \in Nat \ {0} /\ s.require_attestation \in BOOLEAN
    /\ s.evidence \subseteq CollectedEvidence
    /\ s.can_fail \in BOOLEAN /\ s.ages \in BOOLEAN
    /\ s.frames \in [Pk -> Nat] /\ {s.runs, s.epochs} \subseteq Nat \ {0} /\ s.infers \in Nat

VARIABLES
  setup,        \* the setup of this behaviour
  client,       \* of each client: streaming, run, frameNum, lastResult
  posts,        \* POST /frame requests on their way
  arrivals,     \* history: how many frames each session was sent
  sessions,     \* Session, for the public keys that have one
  vetkey_cache, \* CachedVetKey, for the nonces that have one
  inflight,     \* the counter of running inferences
  loop,         \* where the loop is: pc, available, batch, cleanup_due
  tasks,        \* the stage and the key material of every request in work
  epoch,        \* the start of the key server that is up
  attestation   \* what the sidecar collected when it started

given == <<setup, attestation>>   \* what no step changes
vars == <<setup, client, posts, arrivals, sessions, vetkey_cache, inflight, loop, tasks,
          epoch, attestation>>

None   == [seq |-> 0]
NoKeys == [tsk |-> None, evk |-> [epoch |-> 0, tpk |-> None], mpk |-> 0,
           attestation_verified |-> FALSE]

Assign(f, x, v)  == [y \in DOMAIN f \cup {x} |-> IF y = x THEN v ELSE f[y]]
Without(f, X) == [y \in DOMAIN f \ X |-> f[y]]

Init ==
  /\ setup \in Setups
  /\ client = [pk \in Pk |-> [streaming |-> FALSE, run |-> 0, frameNum |-> 0, lastResult |-> 0]]
  /\ posts = {} /\ arrivals = [pk \in Pk |-> 0]
  /\ sessions = [pk \in {} |-> None] /\ vetkey_cache = [pk \in {} |-> NoKeys]
  /\ inflight = 0
  /\ loop = [pc |-> "sleep", available |-> 0, batch |-> {}, cleanup_due |-> FALSE]
  /\ tasks = [req \in {} |-> None]
  /\ epoch = 1
  /\ attestation \in setup.evidence

-----------------------------------------------------------------------------
(* The browser.                                                             *)

FramePost(pk, fid, run) ==
  [kind |-> "frame", pk |-> pk, frame_id |-> fid, run |-> run, ciphertext |-> PostEncrypt(epoch, pk)]

(* Start sets both counters back, keeps nonce and key pair, and sends a frame. *)
Start(pk) ==
  LET run == client[pk].run + 1
  IN  /\ ~client[pk].streaming /\ setup.frames[pk] > 0 /\ run <= setup.runs
      /\ client' = [client EXCEPT ![pk] = [streaming |-> TRUE, run |-> run,
                                           frameNum |-> 1, lastResult |-> 0]]
      /\ posts' = posts \cup {FramePost(pk, 1, run)}
      /\ UNCHANGED <<given, arrivals, sessions, vetkey_cache, inflight, loop, tasks, epoch>>

Stop(pk) ==
  /\ client[pk].streaming /\ client[pk].run < setup.runs
  /\ client' = [client EXCEPT ![pk].streaming = FALSE]
  /\ UNCHANGED <<given, posts, arrivals, sessions, vetkey_cache, inflight, loop, tasks, epoch>>

(* A frame is encrypted and posted without waiting for an answer.           *)
SendFrame(pk) ==
  LET fid == client[pk].frameNum + 1
  IN  /\ client[pk].streaming /\ fid <= setup.frames[pk]
      /\ client' = [client EXCEPT ![pk].frameNum = fid]
      /\ posts' = posts \cup {FramePost(pk, fid, client[pk].run)}
      /\ UNCHANGED <<given, arrivals, sessions, vetkey_cache, inflight, loop, tasks, epoch>>

(* get_result, and what the browser makes of its answer.                    *)
PollResult(pk) ==
  /\ client[pk].streaming /\ pk \in DOMAIN sessions
  /\ sessions[pk].latest_result # None
  /\ sessions[pk].latest_result.frame_id > client[pk].lastResult
  /\ client' = [client EXCEPT ![pk].lastResult = sessions[pk].latest_result.frame_id]
  /\ UNCHANGED <<given, posts, arrivals, sessions, vetkey_cache, inflight, loop, tasks, epoch>>

-----------------------------------------------------------------------------
(* Handlers of the sidecar.                                                 *)

(* post_frame: the session is made if it is not there, and its waiting frame
   replaced.                                                               *)
PostFrameKeepsWaiting(req) ==   \* mutant: a frame that waits is not replaced
  LET pk == req.pk
      frame == [kind |-> req.kind, pk |-> pk, frame_id |-> req.frame_id, run |-> req.run,
                ciphertext |-> req.ciphertext, seq |-> arrivals[pk] + 1]
      new == [latest_frame |-> frame, new_frame |-> TRUE, fresh |-> TRUE, latest_result |-> None]
  IN  /\ req \in posts
      /\ posts' = posts \ {req}
      /\ arrivals' = [arrivals EXCEPT ![pk] = @ + 1]
      /\ sessions' = Assign(sessions, pk,
           IF pk \notin DOMAIN sessions THEN new
           ELSE IF sessions[pk].new_frame THEN sessions[pk]
           ELSE [new EXCEPT !.latest_result = sessions[pk].latest_result])
      /\ UNCHANGED <<given, client, vetkey_cache, inflight, loop, tasks, epoch>>
PostFrame(req) ==
  LET pk == req.pk
      frame == [kind |-> req.kind, pk |-> pk, frame_id |-> req.frame_id, run |-> req.run,
                ciphertext |-> req.ciphertext, seq |-> arrivals[pk] + 1]
      session == IF pk \in DOMAIN sessions THEN sessions[pk] ELSE [latest_result |-> None]
  IN  /\ req \in posts
      /\ posts' = posts \ {req}
      /\ arrivals' = [arrivals EXCEPT ![pk] = @ + 1]
      /\ sessions' = Assign(sessions, pk,
           [latest_frame |-> frame, new_frame |-> TRUE, fresh |-> TRUE,
            latest_result |-> session.latest_result])
      /\ UNCHANGED <<given, client, vetkey_cache, inflight, loop, tasks, epoch>>

(* post_infer: a request of its own, outside sessions, batch and counter.   *)
PostInfer(pk) ==
  LET req == [kind |-> "infer", pk |-> pk, seq |-> 0, ciphertext |-> PostEncrypt(epoch, pk)]
  IN  /\ setup.frames[pk] > 0 /\ req \notin DOMAIN tasks
      /\ Cardinality({r \in DOMAIN tasks : r.kind = "infer"}) < setup.infers
      /\ tasks' = Assign(tasks, req, [stage |-> "lookup", vk |-> NoKeys])
      /\ UNCHANGED <<given, client, posts, arrivals, sessions, vetkey_cache, inflight, loop, epoch>>

-----------------------------------------------------------------------------
(* inference_loop.                                                          *)

LoadInflight ==
  /\ loop.pc = "sleep" /\ inflight < setup.batch_size
  /\ loop' = [loop EXCEPT !.pc = "collect", !.available = setup.batch_size - inflight]
  /\ UNCHANGED <<given, client, posts, arrivals, sessions, vetkey_cache, inflight, tasks, epoch>>

Waiting == {pk \in DOMAIN sessions : sessions[pk].new_frame}

(* Up to available waiting frames, in the order of the map. An empty batch
   goes back to sleep, past the cleanup.                                   *)
CollectLeavesFlag ==   \* mutant: new_frame is not cleared
  /\ loop.pc = "collect"
  /\ \E taken \in SUBSET Waiting :
       /\ taken = Waiting \/ Cardinality(taken) = loop.available
       /\ Cardinality(taken) <= loop.available
       /\ loop' = [loop EXCEPT !.pc = IF taken = {} THEN "sleep" ELSE "spawn",
                               !.batch = {sessions[pk].latest_frame : pk \in taken}]
  /\ UNCHANGED <<given, client, posts, arrivals, sessions, vetkey_cache, inflight, tasks, epoch>>
Collect ==
  /\ loop.pc = "collect"
  /\ \E taken \in SUBSET Waiting :
       /\ taken = Waiting \/ Cardinality(taken) = loop.available
       /\ Cardinality(taken) <= loop.available
       /\ loop' = [loop EXCEPT !.pc = IF taken = {} THEN "sleep" ELSE "spawn",
                               !.batch = {sessions[pk].latest_frame : pk \in taken}]
       /\ sessions' = [pk \in DOMAIN sessions |->
            [sessions[pk] EXCEPT !.new_frame = @ /\ pk \notin taken]]
  /\ UNCHANGED <<given, client, posts, arrivals, vetkey_cache, inflight, tasks, epoch>>

Spawn(frame) ==
  /\ loop.pc = "spawn" /\ frame \in loop.batch
  /\ inflight' = inflight + 1
  /\ tasks' = Assign(tasks, frame, [stage |-> "lookup", vk |-> NoKeys])
  /\ loop' = [loop EXCEPT !.batch = @ \ {frame},
                          !.pc = IF loop.batch = {frame} THEN "cleanup" ELSE "spawn"]
  /\ UNCHANGED <<given, client, posts, arrivals, sessions, vetkey_cache, epoch>>

CleanupStaleSessions ==
  /\ loop.pc = "cleanup"
  /\ loop' = [loop EXCEPT !.pc = "sleep", !.cleanup_due = FALSE]
  /\ sessions' = IF loop.cleanup_due
                 THEN Without(sessions, {pk \in DOMAIN sessions : ~sessions[pk].fresh})
                 ELSE sessions
  /\ UNCHANGED <<given, client, posts, arrivals, vetkey_cache, inflight, tasks, epoch>>

-----------------------------------------------------------------------------
(* process_one_frame and do_infer, one step for each await.                 *)

At(req, stage) == req \in DOMAIN tasks /\ tasks[req].stage = stage
Goes(req, stage) == tasks' = [tasks EXCEPT ![req].stage = stage]

(* get_vetkey_material: the cached key, or one of the task's own.           *)
LookupVetkey(req) ==
  /\ At(req, "lookup")
  /\ IF req.pk \in DOMAIN vetkey_cache
     THEN tasks' = [tasks EXCEPT ![req] = [stage |-> "decrypt", vk |-> vetkey_cache[req.pk]]]
     ELSE Goes(req, "request")
  /\ UNCHANGED <<given, client, posts, arrivals, sessions, vetkey_cache, inflight, loop, epoch>>

Refused == VetkeyRefused(setup.require_attestation, attestation)

RequestVetkey(req) ==
  LET answer == PostVetkey(epoch, req, attestation)
  IN  /\ At(req, "request")
      /\ \/ /\ ~Refused
            /\ tasks' = [tasks EXCEPT ![req] =
                 [stage |-> "mpk",
                  vk |-> [tsk |-> req, evk |-> answer.evk, mpk |-> 0,
                          attestation_verified |-> answer.attestation_verified]]]
         \/ /\ setup.can_fail \/ Refused
            /\ Goes(req, "give_back")
      /\ UNCHANGED <<given, client, posts, arrivals, sessions, vetkey_cache, inflight, loop, epoch>>

RequestMpk(req) ==
  /\ At(req, "mpk")
  /\ \/ tasks' = [tasks EXCEPT ![req] =
          [stage |-> "insert", vk |-> [@.vk EXCEPT !.mpk = GetMpk(epoch)]]]
     \/ setup.can_fail /\ Goes(req, "give_back")
  /\ UNCHANGED <<given, client, posts, arrivals, sessions, vetkey_cache, inflight, loop, epoch>>

InsertVetkeyKeepsSecret(req) ==   \* mutant: the transport secret already cached is kept
  /\ At(req, "insert")
  /\ vetkey_cache' = Assign(vetkey_cache, req.pk,
       IF req.pk \in DOMAIN vetkey_cache
       THEN [tasks[req].vk EXCEPT !.tsk = vetkey_cache[req.pk].tsk] ELSE tasks[req].vk)
  /\ Goes(req, "decrypt")
  /\ UNCHANGED <<given, client, posts, arrivals, sessions, inflight, loop, epoch>>
InsertVetkey(req) ==
  /\ At(req, "insert")
  /\ vetkey_cache' = Assign(vetkey_cache, req.pk, tasks[req].vk)
  /\ Goes(req, "decrypt")
  /\ UNCHANGED <<given, client, posts, arrivals, sessions, inflight, loop, epoch>>

DecryptFrameRetries(req) ==   \* mutant: a frame that does not decrypt is tried again
  LET vk == tasks[req].vk
  IN  /\ At(req, "decrypt")
      /\ Goes(req, IF Decrypts(vk.evk, vk.tsk, vk.mpk, req.ciphertext, req.pk)
                   THEN "vllm" ELSE "lookup")
      /\ UNCHANGED <<given, client, posts, arrivals, sessions, vetkey_cache, inflight, loop, epoch>>
DecryptFrame(req) ==
  LET vk == tasks[req].vk
  IN  /\ At(req, "decrypt")
      /\ Goes(req, IF Decrypts(vk.evk, vk.tsk, vk.mpk, req.ciphertext, req.pk)
                   THEN "vllm" ELSE "give_back")
      /\ UNCHANGED <<given, client, posts, arrivals, sessions, vetkey_cache, inflight, loop, epoch>>

CallVllm(req) ==
  /\ At(req, "vllm")
  /\ Goes(req, "store") \/ (setup.can_fail /\ Goes(req, "give_back"))
  /\ UNCHANGED <<given, client, posts, arrivals, sessions, vetkey_cache, inflight, loop, epoch>>

(* An answer goes to the session if there still is one; /infer returns it.  *)
StoreResult(req) ==
  /\ At(req, "store")
  /\ sessions' = IF req.kind = "frame" /\ req.pk \in DOMAIN sessions
                 THEN [sessions EXCEPT ![req.pk].latest_result = req]
                 ELSE sessions
  /\ Goes(req, "give_back")
  /\ UNCHANGED <<given, client, posts, arrivals, vetkey_cache, inflight, loop, epoch>>

GiveBackOnlySuccess(req) ==   \* mutant: an error path returns before fetch_sub
  /\ At(req, "give_back")
  /\ tasks' = Without(tasks, {req})
  /\ inflight' = IF req.kind = "frame" /\ req.pk \in DOMAIN sessions
                      /\ sessions[req.pk].latest_result = req
                 THEN inflight - 1 ELSE inflight
  /\ UNCHANGED <<given, client, posts, arrivals, sessions, vetkey_cache, loop, epoch>>
GiveBack(req) ==
  /\ At(req, "give_back")
  /\ tasks' = Without(tasks, {req})
  /\ inflight' = IF req.kind = "frame" THEN inflight - 1 ELSE inflight
  /\ UNCHANGED <<given, client, posts, arrivals, sessions, vetkey_cache, loop, epoch>>

-----------------------------------------------------------------------------
(* The rest of the world: time, and a key server that starts anew.          *)

SessionAges(pk) ==
  /\ setup.ages /\ pk \in DOMAIN sessions /\ sessions[pk].fresh
  /\ sessions' = [sessions EXCEPT ![pk].fresh = FALSE]
  /\ UNCHANGED <<given, client, posts, arrivals, vetkey_cache, inflight, loop, tasks, epoch>>

CleanupComesDue ==
  /\ setup.ages /\ ~loop.cleanup_due
  /\ loop' = [loop EXCEPT !.cleanup_due = TRUE]
  /\ UNCHANGED <<given, client, posts, arrivals, sessions, vetkey_cache, inflight, tasks, epoch>>

KeyServerRestarts ==
  /\ epoch < setup.epochs
  /\ epoch' = epoch + 1
  /\ UNCHANGED <<given, client, posts, arrivals, sessions, vetkey_cache, inflight, loop, tasks>>

-----------------------------------------------------------------------------
Browser == \E pk \in Pk : Start(pk) \/ Stop(pk) \/ SendFrame(pk) \/ PollResult(pk)
Handlers == (\E req \in posts : PostFrame(req)) \/ (\E pk \in Pk : PostInfer(pk))
Loop == LoadInflight \/ Collect \/ (\E frame \in loop.batch : Spawn(frame))
          \/ CleanupStaleSessions
Task(req) ==
  LookupVetkey(req) \/ RequestVetkey(req) \/ RequestMpk(req) \/ InsertVetkey(req)
    \/ DecryptFrame(req) \/ CallVllm(req) \/ StoreResult(req) \/ GiveBack(req)
World == (\E pk \in Pk : SessionAges(pk)) \/ CleanupComesDue \/ KeyServerRestarts

Next == Browser \/ Handlers \/ Loop \/ (\E req \in DOMAIN tasks : Task(req)) \/ World

Spec == Init /\ [][Next]_vars

FrameTasks == {req \in DOMAIN tasks : req.kind = "frame"}

(* The runtime schedules the loop, and the tasks it has spawned while one of them
   can go on; time passes. Every call is answered, with an error perhaps: the
   code sets no timeout on any.                                            *)
FairSpec ==
  /\ Spec
  /\ WF_vars(Loop) /\ WF_vars(CleanupComesDue)
  /\ WF_vars(\E req \in FrameTasks : Task(req))

-----------------------------------------------------------------------------
TypeOK ==
  /\ setup \in Setups
  /\ DOMAIN sessions \subseteq Pk /\ DOMAIN vetkey_cache \subseteq Pk
  /\ inflight \in 0..setup.batch_size
  /\ loop.pc \in {"sleep", "collect", "spawn", "cleanup"}
  /\ (loop.pc = "spawn") <=> (loop.batch # {})
  /\ \A pk \in DOMAIN sessions :
       /\ sessions[pk].latest_frame.pk = pk
       /\ sessions[pk].latest_frame.seq = arrivals[pk]
  /\ attestation \in setup.evidence

(* The counter is the number of running inferences, and with what the loop is
   about to start never more than the batch size, whichever tasks end, fail or
   lose their session between the loop's reading it and its last spawn.     *)
InflightAccounts ==
  /\ inflight = Cardinality(FrameTasks)
  /\ inflight + Cardinality(loop.batch) <= setup.batch_size

(* A frame is dispatched once: what waits is not in work and was not answered. *)
DispatchedOnce ==
  /\ loop.batch \cap DOMAIN tasks = {}
  /\ \A pk \in Waiting : sessions[pk].latest_frame
                              \notin DOMAIN tasks \cup loop.batch \cup {sessions[pk].latest_result}

(* The loop's account of its slots: what runs, what waits and what was taken, whichever
   way the loop and the tasks interleave.                                  *)
SlotsAccounted == TypeOK /\ InflightAccounts /\ DispatchedOnce

(* Requests of one nonce that miss the cache together each fetch a key of their
   own; whoever inserts last, a secret stays with the vetKey made for it, and
   while the key server has not been restarted every key in use decrypts.   *)
KeysFitTogether ==
  /\ \A pk \in DOMAIN vetkey_cache : vetkey_cache[pk].tsk = vetkey_cache[pk].evk.tpk
  /\ \A req \in DOMAIN tasks :
       At(req, "decrypt") /\ epoch = 1 =>
         LET vk == tasks[req].vk
         IN  Decrypts(vk.evk, vk.tsk, vk.mpk, req.ciphertext, req.pk)

(* "latest-frame-wins" (sidecar.rs:3), one inference at a time: when nothing waits
   or runs and no call can have failed, a session shows the answer to the last
   frame it was sent. A session that cleanup forgot starts without an answer. *)
QuietShowsLatest ==
  (/\ setup.batch_size = 1 /\ ~setup.can_fail /\ ~Refused /\ setup.epochs = 1
   /\ FrameTasks = {} /\ loop.batch = {}) =>
    \A pk \in DOMAIN sessions \ Waiting : sessions[pk].latest_result.seq = arrivals[pk]

(* One inference at a time, the sidecar is the mailbox of FrameMailbox: what is
   collected or spawned and has not ended is in work.                       *)
InWork(pk) == {req \in FrameTasks \cup loop.batch : req.pk = pk /\ ~At(req, "give_back")}
Mailbox == INSTANCE FrameMailbox WITH
  Session <- Pk, arrived <- arrivals,
  waiting <- [pk \in Pk |-> IF pk \in Waiting THEN sessions[pk].latest_frame.seq ELSE 0],
  working <- [pk \in Pk |-> {req.seq : req \in InWork(pk)}],
  shown <- [pk \in Pk |-> IF pk \in DOMAIN sessions THEN sessions[pk].latest_result.seq ELSE 0]
LatestFrameWins ==
  /\ setup.batch_size = 1 => Mailbox!Init
  /\ [][setup.batch_size = 1 => [Mailbox!Next]_(Mailbox!vars)]_vars

(* Once the clients pause, every frame that waits is dispatched; and every slot
   comes back, however the calls of its task end.                           *)
FramesAreTaken ==
  \A pk \in Pk, n \in 1..Max({s.frames[k] * s.runs : s \in Setups, k \in Pk}) :
    (pk \in Waiting /\ arrivals[pk] = n) ~> ~(pk \in Waiting /\ arrivals[pk] = n)
SlotsComeBack == (inflight > 0) ~> (inflight = 0)

(* The sidecar goes on serving: neither the waiting frames nor the slots starve. *)
KeepsServing == FramesAreTaken /\ SlotsComeBack
=============================================================================
