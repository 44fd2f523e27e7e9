---------------------------- MODULE PushBacklog -----------------------------
(***************************************************************************)
(* The stats store with the push queue behind its hook (ingest_client.py): *)
(* a marker file per announced match, flushed by the serve loop to the     *)
(* central server, statistics first and then the replay.  The central      *)
(* server may be unreachable, or its answer be lost; the agent may die     *)
(* between two writes of a marker.                                         *)
(***************************************************************************)
EXTENDS StatsStore

VARIABLES
  push_replay, \* the configuration key: replays are sent too (the default)
  marker,     \* the queue directory: how far the push of each match has got
  replays,    \* matches with a recording whose sidecar is not inProgress
  central,    \* what the central server last accepted of each match's row
  uploaded,   \* matches whose replay the central server has
  announced,  \* the verdict each match was last announced with
  stopping    \* serve's finally clause is at its last flush

pushVars == <<push_replay, marker, replays, central, uploaded, announced, stopping>>
allVars  == <<vars, pushVars>>

\* "stats" is stats_done, "all" is replay_done too and not yet unlinked.
MarkerState == {"none", "queued", "stats", "all"}

Version(i) == IF rows[i].status = "open" THEN "open" ELSE rows[i].end

-----------------------------------------------------------------------------
(***************************************************************************)
(* flush_backlog, one request at a time.  It runs on the serve thread, so  *)
(* nothing is enqueued meanwhile.                                          *)
(***************************************************************************)
Sends ==
  /\ up \/ stopping
  /\ fired' = {}
  /\ UNCHANGED <<gameVars, tornRun, memVars, dbVars, faults>>
  /\ UNCHANGED <<push_replay, replays, announced>>

Lives == UNCHANGED <<up, stopping, restarts>>

Dies ==
  /\ restarts < MaxRestarts /\ restarts' = restarts + 1
  /\ up' = FALSE /\ stopping' = FALSE

\* Written, and left in place until the rest is done.
Saved(i, to) == marker' = [marker EXCEPT ![i] = to] /\ Lives

\* Written and then unlinked, unless the agent dies in between.
Finished(i, to) ==
  \/ marker' = [marker EXCEPT ![i] = "none"] /\ Lives
  \/ marker' = [marker EXCEPT ![i] = to] /\ Dies

NoAnswer == UNCHANGED marker /\ Lives

\* A marker is done once its statistics are: mutated form of StatsAccepted.
StatsAcceptedIsAll(i) ==
  /\ Sends /\ marker[i] = "queued"
  /\ central' = [central EXCEPT ![i] = Version(i)]
  /\ Finished(i, "all")
  /\ UNCHANGED uploaded

\* The bundle is built from the row as it is now.
StatsAccepted(i) ==
  /\ Sends /\ marker[i] = "queued"
  /\ central' = [central EXCEPT ![i] = Version(i)]
  /\ IF push_replay THEN Saved(i, "stats") ELSE Finished(i, "stats")
  /\ UNCHANGED uploaded

StatsUnanswered(i) ==
  /\ Sends /\ marker[i] = "queued"
  /\ central' = [central EXCEPT ![i] = Version(i)]
  /\ NoAnswer
  /\ UNCHANGED uploaded

\* Only a recording that is closed for good is sent.
SendsReplay(i) ==
  /\ Sends /\ push_replay /\ marker[i] = "stats" /\ i \in replays
  /\ uploaded' = uploaded \cup {i}
  /\ UNCHANGED central

ReplayAccepted(i)   == SendsReplay(i) /\ Finished(i, "all")
ReplayUnanswered(i) == SendsReplay(i) /\ NoAnswer

Flush(i) ==
  \/ StatsAccepted(i)
  \/ StatsUnanswered(i)
  \/ ReplayAccepted(i)
  \/ ReplayUnanswered(i)

-----------------------------------------------------------------------------
(***************************************************************************)
(* The steps of the store.  What they announce is enqueued; a marker that  *)
(* is already there is left as it is.                                      *)
(***************************************************************************)
\* A match is never queued again: mutated form of Enqueued.
EnqueuedOnce(i) ==
  IF i \in fired' /\ marker[i] = "none" /\ central[i] = "none"
  THEN "queued" ELSE marker[i]

Enqueued(i) ==
  IF i \in fired' /\ marker[i] = "none" THEN "queued" ELSE marker[i]

Enqueues ==
  /\ marker' = [i \in Id |-> Enqueued(i)]
  /\ announced' = [i \in Id |->
       IF i \in fired' THEN rows'[i].end ELSE announced[i]]
  /\ UNCHANGED <<push_replay, replays, central, uploaded>>

Runs ==
  /\ Game \/ Consumes \/ Repairs
  /\ Enqueues /\ UNCHANGED stopping

StopsPushing ==
  \/ Shutdown /\ Enqueues /\ stopping' = TRUE
  \/ Crash /\ Enqueues /\ UNCHANGED stopping

\* A marker with nothing left to send is unlinked by the first flush.
Done(i) == marker[i] = "all" \/ (marker[i] = "stats" /\ ~push_replay)

BootsPushing ==
  /\ Boot
  /\ marker' = [i \in Id |-> IF Done(i) THEN "none" ELSE marker[i]]
  /\ stopping' = FALSE
  /\ UNCHANGED <<push_replay, replays, central, uploaded, announced>>

\* The recorder closes the recording of a match that is over as finalized.
RecordingFinalized(i) ==
  /\ up /\ i \in seen \ ({live} \cup replays)
  /\ replays' = replays \cup {i}
  /\ fired' = {}
  /\ UNCHANGED <<gameVars, tornRun, memVars, dbVars, up, faults, restarts>>
  /\ UNCHANGED <<push_replay, marker, central, uploaded, announced, stopping>>

-----------------------------------------------------------------------------
PushInit ==
  /\ Init
  /\ push_replay \in BOOLEAN
  /\ marker = [i \in Id |-> "none"] /\ replays = {}
  /\ central = [i \in Id |-> "none"] /\ uploaded = {}
  /\ announced = [i \in Id |-> "none"] /\ stopping = FALSE

PushNext ==
  \/ Runs
  \/ StopsPushing
  \/ BootsPushing
  \/ \E i \in Id : Flush(i)
  \/ \E i \in Match : RecordingFinalized(i)

PushSpec == PushInit /\ [][PushNext]_allVars

(***************************************************************************)
(* The loop flushes every 30 seconds for as long as a marker is there, so  *)
(* a central server that is reachable again and again gets it in the end.  *)
(* The service manager starts a stopped agent again (Restart=always).      *)
(***************************************************************************)
Fairness ==
  /\ WF_allVars(BootsPushing)
  /\ \A i \in Id : SF_allVars(StatsAccepted(i)) /\ SF_allVars(ReplayAccepted(i))

FairPushSpec == PushSpec /\ Fairness

-----------------------------------------------------------------------------

(***************************************************************************)
(* When only statistics are sent, the verdict gets to the central server,  *)
(* over premature announcements, lost answers and killed agents.           *)
(***************************************************************************)
VerdictReachesCentral ==
  \A i \in Match :
    ~push_replay /\ announced[i] = "finalized" ~> central[i] = "finalized"

(***************************************************************************)
(* When replays are sent too, then whichever comes first, the announcement *)
(* of a match or the end of its recording, its statistics and its replay   *)
(* get to the central server.                                              *)
(***************************************************************************)
ReplayReachesCentral ==
  \A i \in Match :
    push_replay /\ announced[i] # "none" /\ i \in replays
      ~> central[i] # "none" /\ i \in uploaded

(***************************************************************************)
(* The two promises of a queue that forgets nothing: whatever the agent is *)
(* set to send of a match gets to the central server in the end.           *)
(***************************************************************************)
CentralCatchesUp == VerdictReachesCentral /\ ReplayReachesCentral
=============================================================================
