----------------------------- MODULE TimeEntry -----------------------------
(***************************************************************************)
(* The timing fields of one TimeEntry (time_entry.cc, in https_client.cc): *)
(* start_, stop_ and duration_in_seconds_, negative while the entry runs   *)
(* (it then holds -start), and the dirty flag the setters maintain.  The   *)
(* entry is started and stopped by User::Start and User::Stop (the latter  *)
(* calls StopAt(now)), edited through the string setters of the UI, saved  *)
(* by the Local Store (whose SaveUser may roll back after the entry's     *)
(* flag is cleared), and reloaded from it after the process aborts.        *)
(***************************************************************************)
EXTENDS Integers

CONSTANTS
  MaxTime,      \* the number of distinct clock readings
  MaxSeconds,   \* durations the UI may type run over 0..MaxSeconds
  MaxFailures   \* SaveUser calls rolled back after the entry was written

(* Clock readings and typed times.  Real readings are far above any typed  *)
(* duration, so now - seconds is never 0 or negative: the readings start   *)
(* above MaxSeconds.                                                       *)
Times == (MaxSeconds + 1)..(MaxSeconds + MaxTime)

VARIABLES
  now,          \* time(0)
  exists,       \* User::Start has created the entry
  start, stop, duration,
  dirty,
  saved,        \* the fields as last persisted by the Local Store
  aborted,      \* a poco_assert failed: the process is gone
  failures,
  lost          \* history: a rolled-back save cleared the flag since the
                \* last committed one

vars == <<now, exists, start, stop, duration, dirty, saved, aborted,
          failures, lost>>

bookkeeping == <<failures, lost>>

Fields == [start |-> start, stop |-> stop, duration |-> duration]

Init ==
  /\ now = MaxSeconds + 1 /\ exists = FALSE
  /\ start = 0 /\ stop = 0 /\ duration = 0
  /\ dirty = FALSE
  /\ saved = [start |-> 0, stop |-> 0, duration |-> 0]
  /\ aborted = FALSE
  /\ failures = 0 /\ lost = FALSE

-----------------------------------------------------------------------------
(* The plain setters: assign and mark dirty only when the value changes.  *)
(* A setter is an operator on the record of timing fields and the flag.    *)
Set(r, f, v) ==
  IF r[f] = v THEN r ELSE [r EXCEPT ![f] = v, !.dirty = TRUE]

Entry == [start |-> start, stop |-> stop, duration |-> duration, dirty |-> dirty]

Assign(r) ==
  /\ start' = r.start /\ stop' = r.stop /\ duration' = r.duration
  /\ dirty' = r.dirty

(* Mutant: SetStopString assigns stop_ without SetDirty.                  *)
SetStopStringNoDirty(r, t) ==
  LET r1 == IF r.duration >= 0 THEN Set(r, "duration", t - r.start) ELSE r
  IN [r1 EXCEPT !.stop = t]

(* SetStopString: "if (duration_in_seconds_ >= 0)" the duration becomes    *)
(* stop - start_; then SetStop(stop).                                      *)
SetStopString(r, t) ==
  LET r1 == IF r.duration >= 0 THEN Set(r, "duration", t - r.start) ELSE r
  IN Set(r1, "stop", t)

(* SetStartString: a running entry gets duration -start, a stopped one     *)
(* stop = start + duration; then SetStart(start).                          *)
SetStartString(r, t) ==
  LET r1 == IF r.duration < 0 THEN Set(r, "duration", -t)
            ELSE Set(r, "stop", t + r.duration)
  IN Set(r1, "start", t)

(* SetDurationString: a running entry restarts at now - seconds; a stopped *)
(* one gets the duration and stop = start_ + seconds.                      *)
SetDurationString(r, s, t) ==
  IF r.duration < 0
  THEN Set(Set(r, "start", t - s), "duration", -(t - s))
  ELSE Set(Set(r, "duration", s), "stop", r.start + s)

(* StopAt(at): SetDurationInSeconds(at + duration), where the running      *)
(* duration is -start; then "poco_assert(DurationInSeconds() > 0)" and     *)
(* SetStop(at).  FALSE when the assertion fails.                           *)
StopAtOk(r, t) == t + r.duration > 0
StopAt(r, t) == Set(Set(r, "duration", t + r.duration), "stop", t)

-----------------------------------------------------------------------------
(* User::Start: a new entry with Start = now, Stop = 0 and the running     *)
(* duration -now, dirty and not yet saved.                                 *)
UserStart ==
  /\ ~aborted /\ ~exists
  /\ exists' = TRUE
  /\ start' = now /\ stop' = 0 /\ duration' = -now /\ dirty' = TRUE
  /\ UNCHANGED <<now, saved, aborted, bookkeeping>>

(* User::Stop: every running entry (negative duration) is stopped with     *)
(* StopAt(time(0)).  A failing assertion aborts the process.               *)
UserStop ==
  /\ ~aborted /\ exists /\ duration < 0
  /\ IF StopAtOk(Entry, now)
     THEN Assign(StopAt(Entry, now)) /\ UNCHANGED aborted
     ELSE aborted' = TRUE /\ UNCHANGED <<start, stop, duration, dirty>>
  /\ UNCHANGED <<now, exists, saved, bookkeeping>>

(* The UI edits the entry through one of the string setters.               *)
EditStop(t) ==
  /\ ~aborted /\ exists
  /\ Assign(SetStopString(Entry, t))
  /\ UNCHANGED <<now, exists, saved, aborted, bookkeeping>>

EditStart(t) ==
  /\ ~aborted /\ exists
  /\ Assign(SetStartString(Entry, t))
  /\ UNCHANGED <<now, exists, saved, aborted, bookkeeping>>

EditDuration(s) ==
  /\ ~aborted /\ exists
  /\ Assign(SetDurationString(Entry, s, now))
  /\ UNCHANGED <<now, exists, saved, aborted, bookkeeping>>

(* SaveUser with related data: saveTimeEntry writes the entry (it needs    *)
(* saving: dirty, or no LocalID yet, which a new entry is also dirty for)  *)
(* and calls ClearDirty; the transaction commits.                          *)
Save ==
  /\ ~aborted /\ exists /\ dirty
  /\ saved' = Fields /\ dirty' = FALSE /\ lost' = FALSE
  /\ UNCHANGED <<now, exists, start, stop, duration, aborted, failures>>

(* The same SaveUser, where a statement after saveTimeEntry's ClearDirty   *)
(* fails (another entry of saveTimeEntries): session->rollback() undoes    *)
(* the row, and the flag stays cleared.                                    *)
SaveRolledBack ==
  /\ ~aborted /\ exists /\ dirty /\ failures < MaxFailures
  /\ dirty' = FALSE /\ failures' = failures + 1 /\ lost' = TRUE
  /\ UNCHANGED <<now, exists, start, stop, duration, aborted, saved>>

(* After an abort the application starts again and LoadUserByID reads the *)
(* committed row (loadTimeEntriesFromSQLStatement: the setters, then       *)
(* ClearDirty).                                                            *)
Restart ==
  /\ aborted
  /\ aborted' = FALSE
  /\ start' = saved.start /\ stop' = saved.stop /\ duration' = saved.duration
  /\ dirty' = FALSE
  /\ exists' = (saved.start # 0)
  /\ lost' = FALSE
  /\ UNCHANGED <<now, saved, failures>>

Tick ==
  /\ now < MaxSeconds + MaxTime
  /\ now' = now + 1
  /\ UNCHANGED <<exists, start, stop, duration, dirty, saved, aborted,
                 bookkeeping>>

Next ==
  \/ UserStart \/ UserStop \/ Save \/ SaveRolledBack \/ Restart \/ Tick
  \/ \E t \in Times : EditStop(t) \/ EditStart(t)
  \/ \E s \in 0..MaxSeconds : EditDuration(s)

Spec == Init /\ [][Next]_vars

-----------------------------------------------------------------------------
Running == duration < 0

(* A stopped entry's fields agree: stop = start + duration.  Every setter  *)
(* that changes one of them on a stopped entry recomputes the paired one   *)
(* (spec 4.3, duration and start/stop strings).                            *)
StoppedConsistent == exists /\ ~Running => stop = start + duration

(* The dirty flag is set whenever a persisted field differs from what was  *)
(* last committed, through any sequence of setters, starts, stops and      *)
(* saves (spec 3, 4.2), with one exception: a SaveUser rolled back after   *)
(* ClearDirty leaves the change clean (the finding of store_rollback).     *)
DirtyTracksChanges == exists /\ ~aborted /\ Fields # saved => dirty \/ lost

(* Stopping a running entry never fails StopAt's assertion.                *)
StopNeverAborts == ~aborted

=============================================================================
