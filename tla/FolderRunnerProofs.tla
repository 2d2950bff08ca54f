------------------------- MODULE FolderRunnerProofs -------------------------
(***************************************************************************)
(* What holds of the loop of a folder for any callers, paths and number of *)
(* events.                                                                 *)
(***************************************************************************)
EXTENDS FolderRunner, TLAPS

(* Types of what the operators on the record of the folder return.          *)
LEMMA FolderTypes ==
    ASSUME NEW f \in Folder, NEW e \in Errors \cup {NoError}, NEW s \in States,
           NEW t \in Timers, ctxDone \in BOOLEAN
    PROVE  /\ setError(f, e) \in Folder
           /\ setState(f, s) \in Folder
           /\ SchedulePull(f) \in Folder
           /\ ignoresUpdated(f) \in Folder
           /\ Arm(f, t) \in Folder
           /\ Stop(f, t) \in Folder
<1>1. /\ "idle" \in States /\ "error" \in States /\ Watcher \in BOOLEAN
  BY FolderRunnerAssumption DEF States, FolderRunnerAssumption
<1>2. setError(f, e) \in Folder
  BY <1>1 DEF setError, Folder
<1>3. setState(f, s) \in Folder
  BY DEF setState, Folder
<1>4. SchedulePull(f) \in Folder
  BY DEF SchedulePull, Folder
<1>5. ignoresUpdated(f) \in Folder
  BY <1>1 DEF ignoresUpdated, Folder
<1>6. Arm(f, t) \in Folder /\ Stop(f, t) \in Folder
  BY DEF Arm, Stop, Folder
<1> QED BY <1>2, <1>3, <1>4, <1>5, <1>6

(* The folder record alone makes sure that a pull comes.                    *)
Waits(f) ==
    \/ f.pullScheduled
    \/ "pull" \in f.timers
    \/ "pullFail" \in f.timers
    \/ f.err # NoError

(* A folder without an error is watched or will be.                         *)
Watched(f) == (Watcher /\ f.err = NoError) => f.watching \/ f.restartWatch

(* No operator on the record takes these away, but for Stop and the cases   *)
(* that receive a notification.                                             *)
LEMMA FolderKeeps ==
    ASSUME NEW f \in Folder, NEW e \in Errors \cup {NoError}, NEW s \in States,
           NEW t \in Timers, ~ctxDone
    PROVE  /\ Waits(f) => Waits(setError(f, e))
           /\ e # NoError => Waits(setError(f, e))
           /\ Watched(f) => Watched(setError(f, e))
           /\ Waits(f) => Waits(setState(f, s))
           /\ Watched(f) => Watched(setState(f, s))
           /\ Waits(SchedulePull(f))
           /\ Watched(f) => Watched(SchedulePull(f))
           /\ Waits(f) => Waits(ignoresUpdated(f))
           /\ Watched(f) => Watched(ignoresUpdated(f))
           /\ Waits(f) => Waits(Arm(f, t))
           /\ Watched(f) => Watched(Arm(f, t))
           /\ Waits(Arm(f, "pull")) /\ Waits(Arm(f, "pullFail"))
           /\ Watched(f) => Watched(Stop(f, t))
           /\ (Waits(f) /\ t \notin {"pull", "pullFail"}) => Waits(Stop(f, t))
<1> USE DEF Waits, Watched, Folder
<1>1. CASE f.err = e
  BY <1>1 DEF setError, setState, SchedulePull, ignoresUpdated, Arm, Stop
<1>2. CASE f.err # e
  <2>1. Waits(f) => Waits(setError(f, e))
    BY <1>2 DEF setError
  <2>2. e # NoError => Waits(setError(f, e))
    BY <1>2 DEF setError
  <2>3. Watched(f) => Watched(setError(f, e))
    BY <1>2 DEF setError
  <2>4. QED
    BY <2>1, <2>2, <2>3 DEF setState, SchedulePull, ignoresUpdated, Arm, Stop
<1> QED BY <1>1, <1>2

-----------------------------------------------------------------------------
(* Types, for any way through the loop.                                     *)

(* The end of a case leaves a well-typed record.                            *)
LEMMA BackTypes ==
    ASSUME TypeOK, NEW f \in Folder, NEW e \in Errors \cup {NoError}, Back(f, e)
    PROVE  /\ pc' = "select" /\ job' \in Jobs /\ caller' \in Callers \cup {NoCaller}
           /\ folder' \in Folder /\ unwatched' \in BOOLEAN
<1>1. ctxDone \in BOOLEAN /\ unwatched \in BOOLEAN
  BY DEF TypeOK
<1>2. "idle" \in States /\ "scan" \in Timers
  BY DEF States, Timers
<1>3. setError(f, e) \in Folder
  BY <1>1, <1>2, FolderTypes
<1> QED BY <1>1, <1>3 DEF Back, Jobs

(* So does going on to a step of a case.                                    *)
LEMMA GoesTypes ==
    ASSUME TypeOK, NEW f \in Folder, NEW step, NEW by \in Jobs, NEW c \in Callers \cup {NoCaller},
           Goes(step, by, c, f)
    PROVE  /\ pc' = step /\ job' \in Jobs /\ caller' \in Callers \cup {NoCaller}
           /\ folder' \in Folder /\ unwatched' \in BOOLEAN
BY DEF Goes, TypeOK

(* The pause between retries stays within its bounds.                       *)
LEMMA PullReturnsTypes ==
    ASSUME TypeOK, NEW f \in Folder, NEW s \in BOOLEAN, NEW e \in Errors \cup {NoError},
           NEW by, PullReturns(f, s, e, by)
    PROVE  /\ pc' = "select" /\ job' \in Jobs /\ caller' \in Callers \cup {NoCaller}
           /\ folder' \in Folder /\ unwatched' \in BOOLEAN
<1> DEFINE g == [f EXCEPT !.pullPause = IF s THEN 1 ELSE @]
           h == IF by = "retry" /\ (e # NoError \/ ~s) /\ g.pullPause < PauseLimit
                THEN [g EXCEPT !.pullPause = 2 * @] ELSE g
<1>1. PauseLimit \in Nat
  BY FolderRunnerAssumption DEF FolderRunnerAssumption
<1>2. g \in Folder
  BY <1>1 DEF Folder
<1>3. h \in Folder
  <2> HIDE DEF g
  <2>1. CASE g.pullPause < PauseLimit
    <3>1. g.pullPause \in 1..(2 * PauseLimit + 1)
      BY <1>2 DEF Folder
    <3>2. 2 * g.pullPause \in 1..(2 * PauseLimit + 1)
      BY <1>1, <2>1, <3>1
    <3> QED BY <1>2, <3>2 DEF Folder
  <2>2. CASE ~(g.pullPause < PauseLimit)
    BY <1>2, <2>2
  <2> QED BY <2>1, <2>2
<1>4. Back(h, e)
  BY DEF PullReturns
<1> HIDE DEF h
<1> QED BY <1>3, <1>4, BackTypes

(* Beginning a pull keeps the types.                                        *)
LEMMA BeginPullTypes ==
    ASSUME TypeOK, NEW f \in Folder, NEW by \in Jobs, BeginPull(f, by)
    PROVE  /\ pc' \in {"select", "pullTake"} /\ job' \in Jobs
           /\ caller' \in Callers \cup {NoCaller}
           /\ folder' \in Folder /\ unwatched' \in BOOLEAN /\ events' \in 0..MaxEvents
<1> DEFINE g == Stop(f, "pullFail")
<1>1. /\ ctxDone \in BOOLEAN /\ events \in 0..MaxEvents /\ MaxEvents \in Nat
      /\ "pullFail" \in Timers /\ "sync-waiting" \in States
      /\ NoError \in Errors \cup {NoError} /\ "db" \in Errors \cup {NoError}
      /\ "path" \in Errors \cup {NoError}
  BY FolderRunnerAssumption DEF TypeOK, Timers, States, Errors, FolderRunnerAssumption
<1>2. g \in Folder
  BY <1>1, FolderTypes
<1>3. setState(g, "sync-waiting") \in Folder
  BY <1>1, <1>2, FolderTypes
<1>4. Event => events' \in 0..MaxEvents
  BY <1>1 DEF Event
<1>5. NoCaller \in Callers \cup {NoCaller}
  OBVIOUS
<1> HIDE DEF g
<1>6. CASE Back(g, NoError) /\ UNCHANGED events
  BY <1>1, <1>2, <1>6, BackTypes
<1>7. CASE PullReturns(g, TRUE, NoError, by) /\ UNCHANGED events
  BY <1>1, <1>2, <1>7, PullReturnsTypes
<1>8. CASE Event /\ PullReturns(g, FALSE, "db", by)
  BY <1>1, <1>2, <1>4, <1>8, PullReturnsTypes
<1>9. CASE PullReturns(g, FALSE, "path", by) /\ UNCHANGED events
  BY <1>1, <1>2, <1>9, PullReturnsTypes
<1>10. CASE Goes("pullTake", by, NoCaller, setState(g, "sync-waiting")) /\ UNCHANGED events
  BY <1>1, <1>3, <1>5, <1>10, GoesTypes
<1> QED BY <1>6, <1>7, <1>8, <1>9, <1>10 DEF BeginPull, g

(* So does the end of a scan.                                               *)
LEMMA ScanReturnsTypes ==
    ASSUME TypeOK, NEW f \in Folder, NEW e \in Errors \cup {NoError}, NEW by, NEW c,
           ScanReturns(f, e, by, c)
    PROVE  /\ pc' = "select" /\ job' \in Jobs /\ caller' \in Callers \cup {NoCaller}
           /\ folder' \in Folder /\ unwatched' \in BOOLEAN
           /\ initialScanFinished' \in BOOLEAN
           /\ scanner' \in [Callers -> {"idle", "initial", "waiting", "returned"}]
<1> DEFINE h == IF by = "timer" THEN Arm(f, "scan") ELSE f
<1>1. ctxDone \in BOOLEAN /\ "scan" \in Timers /\ "idle" \in States
  BY DEF TypeOK, Timers, States
<1>2. h \in Folder
  BY <1>1, FolderTypes
<1>3. Back(h, e)
  BY DEF ScanReturns
<1>4. initialScanFinished' \in BOOLEAN
  BY DEF ScanReturns, TypeOK
<1>5. scanner' \in [Callers -> {"idle", "initial", "waiting", "returned"}]
  BY DEF ScanReturns, TypeOK
<1> HIDE DEF h
<1> QED BY <1>2, <1>3, <1>4, <1>5, BackTypes

(* So does beginning a scan.                                                *)
LEMMA BeginScanTypes ==
    ASSUME TypeOK, NEW f \in Folder, NEW by \in Jobs, NEW c \in Callers \cup {NoCaller},
           BeginScan(f, by, c)
    PROVE  /\ pc' \in {"select", "scanTake"} /\ job' \in Jobs
           /\ caller' \in Callers \cup {NoCaller}
           /\ folder' \in Folder /\ unwatched' \in BOOLEAN
           /\ initialScanFinished' \in BOOLEAN
           /\ scanner' \in [Callers -> {"idle", "initial", "waiting", "returned"}]
           /\ edited' \in BOOLEAN /\ reloaded' \in BOOLEAN
<1>1. /\ ctxDone \in BOOLEAN /\ "scan" \in Timers /\ "scan-waiting" \in States
      /\ NoError \in Errors \cup {NoError} /\ "path" \in Errors \cup {NoError}
  BY DEF TypeOK, Timers, States, Errors
<1>2. setError(f, NoError) \in Folder
  BY <1>1, FolderTypes
<1>3. setState(setError(f, NoError), "scan-waiting") \in Folder
  BY <1>1, <1>2, FolderTypes
<1>4. CASE ScanReturns(f, "path", by, c) /\ UNCHANGED <<edited, reloaded>>
  <2>1. edited' \in BOOLEAN /\ reloaded' \in BOOLEAN
    BY <1>4 DEF TypeOK
  <2> QED BY <1>1, <1>4, <2>1, ScanReturnsTypes
<1>5. CASE /\ reloaded' = edited /\ edited' = FALSE
           /\ Goes("scanTake", by, c, setState(setError(f, NoError), "scan-waiting"))
           /\ UNCHANGED <<initialScanFinished, scanner>>
  <2>1. /\ edited' \in BOOLEAN /\ reloaded' \in BOOLEAN /\ initialScanFinished' \in BOOLEAN
        /\ scanner' \in [Callers -> {"idle", "initial", "waiting", "returned"}]
    BY <1>5 DEF TypeOK
  <2> QED BY <1>3, <1>5, <2>1, GoesTypes
<1> QED BY <1>4, <1>5 DEF BeginScan

-----------------------------------------------------------------------------
(* The watcher, for any way through the loop.                               *)

(* A record that the loop may leave behind: if the error changed, then it   *)
(* changed by setError, which saw to the watcher.                           *)
Sound(f) ==
    /\ f \in Folder
    /\ f.err # folder.err => Watched(f)
    /\ Watched(folder) => Watched(f)

Moves == Sound(folder') /\ unwatched' = (unwatched /\ folder'.err = folder.err)

(* Every operator on the record keeps it sound.                             *)
LEMMA SoundKept ==
    ASSUME NEW f \in Folder, Sound(f), NEW e \in Errors \cup {NoError}, NEW s \in States,
           NEW t \in Timers, ctxDone \in BOOLEAN
    PROVE  /\ Sound(setError(f, e)) /\ Sound(setState(f, s)) /\ Sound(SchedulePull(f))
           /\ Sound(ignoresUpdated(f)) /\ Sound(Arm(f, t)) /\ Sound(Stop(f, t))
<1>1. /\ setError(f, e) \in Folder /\ setState(f, s) \in Folder /\ SchedulePull(f) \in Folder
      /\ ignoresUpdated(f) \in Folder /\ Arm(f, t) \in Folder /\ Stop(f, t) \in Folder
  BY FolderTypes
<1>2. Sound(setError(f, e))
  <2>1. CASE ctxDone \/ f.err = e
    BY <2>1 DEF setError
  <2>2. CASE ~(ctxDone \/ f.err = e)
    <3>1. Watched(setError(f, e))
      BY <2>2 DEF setError, Watched, Folder
    <3> QED BY <1>1, <3>1 DEF Sound
  <2> QED BY <2>1, <2>2
<1>3. /\ setState(f, s).err = f.err /\ SchedulePull(f).err = f.err
      /\ ignoresUpdated(f).err = f.err /\ Arm(f, t).err = f.err /\ Stop(f, t).err = f.err
  BY DEF setState, SchedulePull, ignoresUpdated, Arm, Stop, Folder
<1>4. Watched(f) => /\ Watched(setState(f, s)) /\ Watched(SchedulePull(f))
                    /\ Watched(ignoresUpdated(f)) /\ Watched(Arm(f, t)) /\ Watched(Stop(f, t))
  BY DEF setState, SchedulePull, ignoresUpdated, Arm, Stop, Folder, Watched
<1> QED BY <1>1, <1>2, <1>3, <1>4 DEF Sound

(* The end of a case leaves a sound record behind.                          *)
LEMMA BackMoves ==
    ASSUME TypeOK, NEW f \in Folder, Sound(f), NEW e \in Errors \cup {NoError}, Back(f, e)
    PROVE  Moves
<1>1. ctxDone \in BOOLEAN /\ "idle" \in States /\ "scan" \in Timers
  BY DEF TypeOK, States, Timers
<1>2. Sound(setError(f, e))
  BY <1>1, SoundKept
<1> QED BY <1>2 DEF Back, Moves

(* So does the end of a pull.                                               *)
LEMMA PullReturnsMoves ==
    ASSUME TypeOK, NEW f \in Folder, Sound(f), NEW s \in BOOLEAN,
           NEW e \in Errors \cup {NoError}, NEW by, PullReturns(f, s, e, by)
    PROVE  Moves
<1> DEFINE g == [f EXCEPT !.pullPause = IF s THEN 1 ELSE @]
           h == IF by = "retry" /\ (e # NoError \/ ~s) /\ g.pullPause < PauseLimit
                THEN [g EXCEPT !.pullPause = 2 * @] ELSE g
<1>1. PauseLimit \in Nat
  BY FolderRunnerAssumption DEF FolderRunnerAssumption
<1>2. g \in Folder /\ g.err = f.err /\ (Watched(f) => Watched(g))
  BY <1>1 DEF Folder, Watched
<1>3. h \in Folder /\ h.err = g.err /\ (Watched(g) => Watched(h))
  <2> HIDE DEF g
  <2>1. CASE g.pullPause < PauseLimit
    <3>1. g.pullPause \in 1..(2 * PauseLimit + 1)
      BY <1>2 DEF Folder
    <3>2. 2 * g.pullPause \in 1..(2 * PauseLimit + 1)
      BY <1>1, <2>1, <3>1
    <3> QED BY <1>2, <3>2 DEF Folder, Watched
  <2>2. CASE ~(g.pullPause < PauseLimit)
    BY <1>2, <2>2
  <2> QED BY <2>1, <2>2
<1>4. Back(h, e)
  BY DEF PullReturns
<1> HIDE DEF h, g
<1>5. Sound(h)
  BY <1>2, <1>3 DEF Sound
<1> QED BY <1>3, <1>4, <1>5, BackMoves

(* So does the beginning of one.                                            *)
LEMMA BeginPullMoves ==
    ASSUME TypeOK, NEW f \in Folder, Sound(f), NEW by \in Jobs, BeginPull(f, by)
    PROVE  Moves
<1> DEFINE g == Stop(f, "pullFail")
<1>1. /\ ctxDone \in BOOLEAN /\ "pullFail" \in Timers /\ "sync-waiting" \in States
      /\ NoError \in Errors \cup {NoError} /\ "db" \in Errors \cup {NoError}
      /\ "path" \in Errors \cup {NoError}
  BY DEF TypeOK, Timers, States, Errors
<1>2. g \in Folder /\ Sound(g)
  BY <1>1, FolderTypes, SoundKept
<1> HIDE DEF g
<1>3. Sound(setState(g, "sync-waiting"))
  BY <1>1, <1>2, SoundKept
<1>4. CASE Back(g, NoError)
  BY <1>1, <1>2, <1>4, BackMoves
<1>5. CASE PullReturns(g, TRUE, NoError, by)
  BY <1>1, <1>2, <1>5, PullReturnsMoves
<1>6. CASE PullReturns(g, FALSE, "db", by)
  BY <1>1, <1>2, <1>6, PullReturnsMoves
<1>7. CASE PullReturns(g, FALSE, "path", by)
  BY <1>1, <1>2, <1>7, PullReturnsMoves
<1>8. CASE Goes("pullTake", by, NoCaller, setState(g, "sync-waiting"))
  BY <1>3, <1>8 DEF Goes, Moves
<1> QED BY <1>4, <1>5, <1>6, <1>7, <1>8 DEF BeginPull, g

(* So does the end of a scan.                                               *)
LEMMA ScanReturnsMoves ==
    ASSUME TypeOK, NEW f \in Folder, Sound(f), NEW e \in Errors \cup {NoError}, NEW by, NEW c,
           ScanReturns(f, e, by, c)
    PROVE  Moves
<1> DEFINE h == IF by = "timer" THEN Arm(f, "scan") ELSE f
<1>1. ctxDone \in BOOLEAN /\ "scan" \in Timers /\ "idle" \in States
  BY DEF TypeOK, Timers, States
<1>2. h \in Folder /\ Sound(h)
  BY <1>1, FolderTypes, SoundKept
<1>3. Back(h, e)
  BY DEF ScanReturns
<1> HIDE DEF h
<1> QED BY <1>2, <1>3, BackMoves

(* So does the beginning of one.                                            *)
LEMMA BeginScanMoves ==
    ASSUME TypeOK, NEW f \in Folder, Sound(f), NEW by \in Jobs, NEW c, BeginScan(f, by, c)
    PROVE  Moves
<1>1. /\ ctxDone \in BOOLEAN /\ "scan" \in Timers /\ "scan-waiting" \in States
      /\ NoError \in Errors \cup {NoError} /\ "path" \in Errors \cup {NoError}
  BY DEF TypeOK, Timers, States, Errors
<1>2. setError(f, NoError) \in Folder /\ Sound(setError(f, NoError))
  BY <1>1, FolderTypes, SoundKept
<1>3. Sound(setState(setError(f, NoError), "scan-waiting"))
  BY <1>1, <1>2, SoundKept
<1>4. CASE ScanReturns(f, "path", by, c)
  BY <1>1, <1>4, ScanReturnsMoves
<1>5. CASE Goes("scanTake", by, c, setState(setError(f, NoError), "scan-waiting"))
  BY <1>3, <1>5 DEF Goes, Moves
<1> QED BY <1>4, <1>5 DEF BeginScan

-----------------------------------------------------------------------------
(* The pull that is to come, for any way through the loop.                  *)

(* An error, or what waits already, brings a pull after a case.             *)
LEMMA BackWaits ==
    ASSUME NEW f \in Folder, NEW e \in Errors \cup {NoError}, Back(f, e), ~ctxDone,
           Waits(f) \/ e # NoError
    PROVE  Waits(folder')
<1>1. "idle" \in States /\ "scan" \in Timers
  BY DEF States, Timers
<1>2. Waits(setError(f, e))
  BY <1>1, FolderKeeps
<1> QED BY <1>2 DEF Back

(* The same for the end of a pull.                                          *)
LEMMA PullReturnsWaits ==
    ASSUME NEW f \in Folder, NEW s \in BOOLEAN, NEW e \in Errors \cup {NoError}, NEW by,
           PullReturns(f, s, e, by), ~ctxDone, Waits(f) \/ e # NoError
    PROVE  Waits(folder')
<1> DEFINE g == [f EXCEPT !.pullPause = IF s THEN 1 ELSE @]
           h == IF by = "retry" /\ (e # NoError \/ ~s) /\ g.pullPause < PauseLimit
                THEN [g EXCEPT !.pullPause = 2 * @] ELSE g
<1>1. PauseLimit \in Nat
  BY FolderRunnerAssumption DEF FolderRunnerAssumption
<1>2. g \in Folder /\ (Waits(f) => Waits(g))
  BY <1>1 DEF Folder, Waits
<1>3. h \in Folder /\ (Waits(g) => Waits(h))
  <2> HIDE DEF g
  <2>1. CASE g.pullPause < PauseLimit
    <3>1. g.pullPause \in 1..(2 * PauseLimit + 1)
      BY <1>2 DEF Folder
    <3>2. 2 * g.pullPause \in 1..(2 * PauseLimit + 1)
      BY <1>1, <2>1, <3>1
    <3> QED BY <1>2, <3>2 DEF Folder, Waits
  <2>2. CASE ~(g.pullPause < PauseLimit)
    BY <1>2, <2>2
  <2> QED BY <2>1, <2>2
<1>4. Back(h, e)
  BY DEF PullReturns
<1> HIDE DEF h, g
<1> QED BY <1>2, <1>3, <1>4, BackWaits

(* A pull that does not begin leaves something that will begin another.     *)
LEMMA BeginPullWaits ==
    ASSUME ctxDone \in BOOLEAN, NEW f \in Folder, NEW by, BeginPull(f, by), ~ctxDone, need
    PROVE  pc' = "pullTake" \/ Waits(folder') \/ ~initialScanFinished
<1> DEFINE g == Stop(f, "pullFail")
<1>1. /\ "pullFail" \in Timers /\ "idle" \in States
      /\ "db" \in Errors \cup {NoError} /\ "path" \in Errors \cup {NoError}
      /\ "db" # NoError /\ "path" # NoError /\ NoError \in Errors \cup {NoError}
  BY DEF Timers, Errors, NoError, States
<1>2. g \in Folder
  BY <1>1, FolderTypes
<1> HIDE DEF g
<1>3. CASE ~initialScanFinished
  BY <1>3
<1>4. CASE PullReturns(g, FALSE, "db", by)
  BY <1>1, <1>2, <1>4, PullReturnsWaits
<1>5. CASE PullReturns(g, FALSE, "path", by)
  BY <1>1, <1>2, <1>5, PullReturnsWaits
<1>6. CASE Goes("pullTake", by, NoCaller, setState(g, "sync-waiting"))
  BY <1>6 DEF Goes
<1> QED BY <1>3, <1>4, <1>5, <1>6 DEF BeginPull, g

(* What waits still waits at the end of a scan.                             *)
LEMMA ScanReturnsWaits ==
    ASSUME NEW f \in Folder, NEW e \in Errors \cup {NoError}, NEW by, NEW c,
           ctxDone \in BOOLEAN, ScanReturns(f, e, by, c), ~ctxDone, Waits(f) \/ e # NoError
    PROVE  Waits(folder')
<1> DEFINE h == IF by = "timer" THEN Arm(f, "scan") ELSE f
<1>1. "scan" \in Timers /\ "idle" \in States
  BY DEF Timers, States
<1>2. h \in Folder /\ (Waits(f) => Waits(h))
  BY <1>1, FolderTypes, FolderKeeps
<1>3. Back(h, e)
  BY DEF ScanReturns
<1> HIDE DEF h
<1> QED BY <1>2, <1>3, BackWaits

(* And at the beginning of one.                                             *)
LEMMA BeginScanWaits ==
    ASSUME ctxDone \in BOOLEAN, NEW f \in Folder, NEW by, NEW c, BeginScan(f, by, c), ~ctxDone, Waits(f)
    PROVE  Waits(folder')
<1>1. /\ "scan" \in Timers /\ "scan-waiting" \in States
      /\ NoError \in Errors \cup {NoError} /\ "path" \in Errors \cup {NoError}
  BY DEF Timers, States, Errors
<1>2. setError(f, NoError) \in Folder /\ Waits(setError(f, NoError))
  BY <1>1, FolderTypes, FolderKeeps
<1>3. Waits(setState(setError(f, NoError), "scan-waiting"))
  BY <1>1, <1>2, FolderKeeps
<1>4. CASE ScanReturns(f, "path", by, c)
  BY <1>1, <1>4, ScanReturnsWaits
<1>5. CASE Goes("scanTake", by, c, setState(setError(f, NoError), "scan-waiting"))
  BY <1>3, <1>5 DEF Goes
<1> QED BY <1>4, <1>5 DEF BeginScan

-----------------------------------------------------------------------------
(* Every step keeps the types, and the token goes with the work.            *)

(* Types of what scans and pulls leave behind.                              *)
LEMMA AfterTypes ==
    ASSUME TypeOK, NEW changes \in BOOLEAN
    PROVE  AfterPull \in Folder /\ AfterScan(changes) \in Folder
<1>1. folder \in Folder /\ ctxDone \in BOOLEAN /\ "idle" \in States /\ "scan" \in Timers
      /\ NoError \in Errors \cup {NoError}
  BY DEF TypeOK, States, Timers
<1> DEFINE f == setState(folder, "idle")
<1>2. f \in Folder
  BY <1>1, FolderTypes
<1> HIDE DEF f
<1>3. ignoresUpdated(f) \in Folder
  BY <1>1, <1>2, FolderTypes
<1>4. SchedulePull(ignoresUpdated(f)) \in Folder /\ SchedulePull(f) \in Folder
  BY <1>1, <1>2, <1>3, FolderTypes
<1>5. SchedulePull(SchedulePull(ignoresUpdated(f))) \in Folder
  BY <1>1, <1>4, FolderTypes
<1>6. AfterPull \in Folder
  BY <1>2, <1>3 DEF AfterPull, f
<1>7. AfterScan(changes) \in Folder
  BY <1>2, <1>4, <1>5 DEF AfterScan, f
<1> QED BY <1>6, <1>7

(* The type invariant in parts, so that a step's effect on each is shown by *)
(* itself: the loop's own state, the flags, the sets and the token.         *)
TypeLoop ==
    /\ pc \in {"starting", "draining", "select", "pullTake", "pulling", "scanTake", "scanning",
               "cleanTake", "cleaning", "stopped"}
    /\ job \in Jobs /\ caller \in Callers \cup {NoCaller}
    /\ folder \in Folder /\ events \in 0..MaxEvents

TypeFlags ==
    /\ scanScheduled \in BOOLEAN /\ forcedRequested \in BOOLEAN
    /\ initialScanFinished \in BOOLEAN /\ initialCompleted \in BOOLEAN
    /\ need \in BOOLEAN /\ fresh \in BOOLEAN
    /\ healthy \in BOOLEAN /\ edited \in BOOLEAN /\ reloaded \in BOOLEAN
    /\ started \in BOOLEAN /\ unwatched \in BOOLEAN /\ ctxDone \in BOOLEAN /\ done \in BOOLEAN

TypeRest ==
    /\ forcedPaths \subseteq Paths /\ marking \subseteq Paths
    /\ receiver \in {"idle", "stored"}
    /\ scanner \in [Callers -> {"idle", "initial", "waiting", "returned"}]

TypeToken ==
    /\ token \in {"free", "us", "other"}
    /\ token = "us" <=> pc \in {"pulling", "scanning", "cleaning"}

(* The parts make the whole, after a step.                                  *)
LEMMA TypeParts ==
    ASSUME TypeLoop', TypeFlags', TypeRest', TypeToken'
    PROVE  TypeOK'
BY DEF TypeOK, TypeLoop, TypeFlags, TypeRest, TypeToken

(* The cases of the select keep the types.                                  *)
LEMMA CaseTypes ==
    ASSUME TypeOK, Case
    PROVE  TypeOK'
<1> USE DEF asked, scans, needs, disk
<1>0. /\ folder \in Folder /\ ctxDone \in BOOLEAN /\ MaxEvents \in Nat
      /\ {"scan", "pull", "pullFail", "clean", "health"} \subseteq Timers
      /\ {"idle", "sync-waiting", "clean-waiting"} \subseteq States
      /\ Errors \cup {NoError} = {"path", "db", NoError}
      /\ {"pull", "retry", "timer", "sync", "forced", "watch", "restart", "clean", "none"} \subseteq Jobs
      /\ NoCaller \in Callers \cup {NoCaller} /\ Watcher \in BOOLEAN
      /\ events \in 0..MaxEvents /\ (Event => events' \in 0..MaxEvents)
  BY FolderRunnerAssumption
  DEF TypeOK, Timers, States, Errors, Jobs, FolderRunnerAssumption, Event
<1>1. CASE CaseDone
  <2> DEFINE f == [folder EXCEPT !.timers = @ \ {"scan", "clean", "health"}, !.state = "idle"]
  <2>1. f \in Folder
    BY <1>0 DEF Folder
  <2>2. Goes("stopped", "none", NoCaller, f)
    BY <1>1 DEF CaseDone
  <2> HIDE DEF f
  <2>3. /\ pc' = "stopped" /\ job' \in Jobs /\ caller' \in Callers \cup {NoCaller}
        /\ folder' \in Folder /\ unwatched' \in BOOLEAN
    BY <1>0, <2>1, <2>2, GoesTypes
  <2> QED BY <1>1, <2>3 DEF CaseDone, TypeOK
<1>2. CASE CasePullScheduled
  <2> DEFINE f == [folder EXCEPT !.pullScheduled = FALSE]
             g == IF need THEN setState(f, "sync-waiting") ELSE f
  <2>1. f \in Folder
    BY <1>0 DEF Folder
  <2>2. g \in Folder
    BY <1>0, <2>1, FolderTypes
  <2>3. Arm(g, "pull") \in Folder
    <3> HIDE DEF g
    <3> QED BY <1>0, <2>2, FolderTypes
  <2>4. \/ Back(Arm(g, "pull"), NoError) /\ UNCHANGED events
        \/ BeginPull(f, "pull")
    BY <1>2 DEF CasePullScheduled
  <2> HIDE DEF f, g
  <2>5. /\ pc' \in {"select", "pullTake"} /\ job' \in Jobs
        /\ caller' \in Callers \cup {NoCaller}
        /\ folder' \in Folder /\ unwatched' \in BOOLEAN /\ events' \in 0..MaxEvents
    BY <1>0, <2>1, <2>3, <2>4, BackTypes, BeginPullTypes
  <2> QED BY <1>2, <2>5 DEF CasePullScheduled, TypeOK
<1>3. CASE CasePullTimer
  <2>1. Stop(folder, "pull") \in Folder
    BY <1>0, FolderTypes
  <2>2. setState(Stop(folder, "pull"), "idle") \in Folder
    BY <1>0, <2>1, FolderTypes
  <2>3. /\ pc' \in {"select", "pullTake"} /\ job' \in Jobs
        /\ caller' \in Callers \cup {NoCaller}
        /\ folder' \in Folder /\ unwatched' \in BOOLEAN /\ events' \in 0..MaxEvents
    BY <1>0, <1>3, <2>2, BeginPullTypes DEF CasePullTimer
  <2> QED BY <1>3, <2>3 DEF CasePullTimer, TypeOK
<1>4. CASE CasePullFailTimer
  <2>1. /\ pc' \in {"select", "pullTake"} /\ job' \in Jobs
        /\ caller' \in Callers \cup {NoCaller}
        /\ folder' \in Folder /\ unwatched' \in BOOLEAN /\ events' \in 0..MaxEvents
    BY <1>0, <1>4, BeginPullTypes DEF CasePullFailTimer
  <2> QED BY <1>4, <2>1 DEF CasePullFailTimer, TypeOK
<1>5. CASE CaseInitialCompleted
  <2>1. /\ pc' \in {"select", "pullTake"} /\ job' \in Jobs
        /\ caller' \in Callers \cup {NoCaller}
        /\ folder' \in Folder /\ unwatched' \in BOOLEAN /\ events' \in 0..MaxEvents
    BY <1>0, <1>5, BeginPullTypes DEF CaseInitialCompleted
  <2>2. initialScanFinished' \in BOOLEAN /\ initialCompleted' \in BOOLEAN
    BY <1>5 DEF CaseInitialCompleted, TypeOK
  <2> QED BY <1>5, <2>1, <2>2 DEF CaseInitialCompleted, TypeOK
<1> DEFINE Scanned ==
        /\ pc' \in {"select", "scanTake"} /\ job' \in Jobs
        /\ caller' \in Callers \cup {NoCaller}
        /\ folder' \in Folder /\ unwatched' \in BOOLEAN
        /\ initialScanFinished' \in BOOLEAN
        /\ scanner' \in [Callers -> {"idle", "initial", "waiting", "returned"}]
        /\ edited' \in BOOLEAN /\ reloaded' \in BOOLEAN
<1>6. \A f \in Folder : \A e \in Errors \cup {NoError} :
        Back(f, e) /\ UNCHANGED <<edited, reloaded, initialScanFinished, scanner>> => Scanned
  <2> SUFFICES ASSUME NEW f \in Folder, NEW e \in Errors \cup {NoError}, Back(f, e),
                      UNCHANGED <<edited, reloaded, initialScanFinished, scanner>>
               PROVE  Scanned
    OBVIOUS
  <2>1. /\ edited' \in BOOLEAN /\ reloaded' \in BOOLEAN /\ initialScanFinished' \in BOOLEAN
        /\ scanner' \in [Callers -> {"idle", "initial", "waiting", "returned"}]
    BY DEF TypeOK
  <2> QED BY <2>1, BackTypes
<1>7. CASE CaseForcedRescan
  <2>1. Scanned
    BY <1>0, <1>6, <1>7, BeginScanTypes DEF CaseForcedRescan
  <2>2. events' \in 0..MaxEvents
    BY <1>0, <1>7 DEF CaseForcedRescan
  <2>3. /\ forcedRequested' = FALSE /\ forcedPaths' = {} /\ pc = "select"
        /\ UNCHANGED <<scanScheduled, marking, initialCompleted, need, fresh, receiver, healthy, token,
                       started, ctxDone, done>>
    BY <1>7 DEF CaseForcedRescan
  <2>4. TypeLoop'
    BY <2>1, <2>2, <2>3 DEF TypeOK, TypeLoop
  <2>5. TypeFlags'
    BY <2>1, <2>2, <2>3 DEF TypeOK, TypeFlags
  <2>6. TypeRest'
    BY <2>1, <2>2, <2>3 DEF TypeOK, TypeRest
  <2>7. TypeToken'
    BY <2>1, <2>2, <2>3 DEF TypeOK, TypeToken
  <2> QED BY <2>4, <2>5, <2>6, <2>7, TypeParts
<1> USE DEF ScanFrame
<1>8. CASE CaseScanTimer
  <2>1. Stop(folder, "scan") \in Folder
    BY <1>0, FolderTypes
  <2>2. Scanned
    BY <1>0, <1>8, <2>1, BeginScanTypes DEF CaseScanTimer
  <2> QED BY <1>8, <2>2 DEF CaseScanTimer, TypeOK
<1>9. CASE \E c \in Callers : CaseDoInSync(c)
  <2> PICK c \in Callers : CaseDoInSync(c)
    BY <1>9
  <2>1. Scanned
    BY <1>0, BeginScanTypes DEF CaseDoInSync
  <2> QED BY <2>1 DEF CaseDoInSync, TypeOK
<1>10. CASE CaseScanDelay
  <2>1. Arm(folder, "scan") \in Folder
    BY <1>0, FolderTypes
  <2>2. Scanned
    BY <1>0, <1>6, <1>10, <2>1 DEF CaseScanDelay
  <2> QED BY <1>0, <1>10, <2>2 DEF CaseScanDelay, TypeOK
<1>11. CASE CaseScanScheduled
  <2>1. Arm(folder, "scan") \in Folder
    BY <1>0, FolderTypes
  <2>2. Scanned
    BY <1>0, <1>6, <1>11, <2>1 DEF CaseScanScheduled
  <2>3. /\ scanScheduled' = FALSE /\ pc = "select"
        /\ UNCHANGED <<forcedRequested, forcedPaths, marking, initialCompleted, need, fresh, receiver,
                       healthy, token, started, ctxDone, done, events>>
    BY <1>11 DEF CaseScanScheduled
  <2>4. TypeLoop'
    BY <2>2, <2>3 DEF TypeOK, TypeLoop
  <2>5. TypeFlags'
    BY <2>2, <2>3 DEF TypeOK, TypeFlags
  <2>6. TypeRest'
    BY <2>2, <2>3 DEF TypeOK, TypeRest
  <2>7. TypeToken'
    BY <2>2, <2>3 DEF TypeOK, TypeToken
  <2> QED BY <2>4, <2>5, <2>6, <2>7, TypeParts
<1>12. CASE CaseWatch
  <2>1. Scanned
    BY <1>0, <1>12, BeginScanTypes DEF CaseWatch
  <2> QED BY <1>0, <1>12, <2>1 DEF CaseWatch, TypeOK
<1>13. CASE CaseRestartWatch
  <2> DEFINE f == [folder EXCEPT !.restartWatch = FALSE, !.watching = TRUE]
  <2>1. f \in Folder
    BY <1>0 DEF Folder
  <2>2. BeginScan(f, "restart", NoCaller)
    BY <1>13 DEF CaseRestartWatch
  <2> HIDE DEF f
  <2>3. Scanned
    BY <1>0, <2>1, <2>2, BeginScanTypes
  <2> QED BY <1>13, <2>3 DEF CaseRestartWatch, TypeOK
<1> USE DEF CleanFrame
<1>14. CASE CaseCleanTimer
  <2>1. Stop(folder, "clean") \in Folder
    BY <1>0, FolderTypes
  <2>2. setState(Stop(folder, "clean"), "clean-waiting") \in Folder
    BY <1>0, <2>1, FolderTypes
  <2>3. /\ pc' = "cleanTake" /\ job' \in Jobs /\ caller' \in Callers \cup {NoCaller}
        /\ folder' \in Folder /\ unwatched' \in BOOLEAN
    BY <1>0, <1>14, <2>2, GoesTypes DEF CaseCleanTimer
  <2> QED BY <1>14, <2>3 DEF CaseCleanTimer, TypeOK
<1>15. CASE CaseHealthTimer
  <2>1. setError(folder, NoError) \in Folder
    BY <1>0, FolderTypes
  <2>2. /\ pc' = "select" /\ job' \in Jobs /\ caller' \in Callers \cup {NoCaller}
        /\ folder' \in Folder /\ unwatched' \in BOOLEAN
    BY <1>0, <1>15, <2>1, BackTypes DEF CaseHealthTimer
  <2> QED BY <1>15, <2>2 DEF CaseHealthTimer, TypeOK
<1> QED BY <1>1, <1>2, <1>3, <1>4, <1>5, <1>7, <1>8, <1>9, <1>10, <1>11, <1>12, <1>13, <1>14, <1>15
        DEF Case

(* So do the steps of what they run.                                        *)
LEMMA RunTypes ==
    ASSUME TypeOK, Run
    PROVE  TypeOK'
<1> USE DEF asked, scans, needs, disk
<1>0. /\ folder \in Folder /\ ctxDone \in BOOLEAN /\ MaxEvents \in Nat
      /\ job \in Jobs /\ caller \in Callers \cup {NoCaller}
      /\ "pullFail" \in Timers /\ "clean" \in Timers
      /\ {"idle", "starting", "syncing", "scanning", "cleaning"} \subseteq States
      /\ Errors \cup {NoError} = {"path", "db", NoError}
      /\ {"none", "clean"} \subseteq Jobs
      /\ NoCaller \in Callers \cup {NoCaller} /\ Watcher \in BOOLEAN
      /\ events \in 0..MaxEvents /\ (Event => events' \in 0..MaxEvents)
  BY FolderRunnerAssumption
  DEF TypeOK, Timers, States, Errors, Jobs, FolderRunnerAssumption, Event
<1>a. AfterPull \in Folder /\ AfterScan(TRUE) \in Folder /\ AfterScan(FALSE) \in Folder
  BY AfterTypes
<1>1. CASE StartFails
  <2> DEFINE f == setError(setState(folder, "starting"), "db")
             g == [f EXCEPT !.timers = @ \ {"scan", "clean", "health"}, !.state = "idle"]
  <2>1. setState(folder, "starting") \in Folder
    BY <1>0, FolderTypes
  <2>2. f \in Folder
    BY <1>0, <2>1, FolderTypes
  <2>3. g \in Folder
    <3> HIDE DEF f
    <3> QED BY <1>0, <2>2 DEF Folder
  <2>4. Goes("starting", "none", NoCaller, g)
    BY <1>1 DEF StartFails
  <2> HIDE DEF f, g
  <2>5. /\ pc' = "starting" /\ job' \in Jobs /\ caller' \in Callers \cup {NoCaller}
        /\ folder' \in Folder /\ unwatched' \in BOOLEAN
    BY <1>0, <2>3, <2>4, GoesTypes
  <2> QED BY <1>0, <1>1, <2>5 DEF StartFails, TypeOK
<1>2. CASE Start
  <2> DEFINE watch == Watcher /\ healthy
             f == [folder EXCEPT !.watching = watch,
                                 !.state = IF Drains THEN "starting" ELSE "idle"]
  <2>1. watch \in BOOLEAN /\ healthy \in BOOLEAN
    BY <1>0 DEF TypeOK
  <2>2. f \in Folder
    <3> HIDE DEF watch
    <3> QED BY <1>0, <2>1 DEF Folder
  <2>3. /\ folder' = f /\ unwatched' = (Watcher /\ ~watch) /\ edited' = (edited /\ ~watch)
        /\ pc' \in {"draining", "select"} /\ job' = "none" /\ caller' = NoCaller
    BY <1>2 DEF Start
  <2> HIDE DEF f, watch
  <2>4. unwatched' \in BOOLEAN /\ edited' \in BOOLEAN
    BY <2>3
  <2> QED BY <1>0, <1>2, <2>2, <2>3, <2>4 DEF Start, TypeOK
<1>3. CASE PullTakes
  <2>1. setError(folder, NoError) \in Folder
    BY <1>0, FolderTypes
  <2>2. setState(setError(folder, NoError), "syncing") \in Folder
    BY <1>0, <2>1, FolderTypes
  <2>3. /\ pc' = "pulling" /\ job' \in Jobs /\ caller' \in Callers \cup {NoCaller}
        /\ folder' \in Folder /\ unwatched' \in BOOLEAN
    BY <1>0, <1>3, <2>2, GoesTypes DEF PullTakes
  <2>4. /\ token' = "us" /\ reloaded' = edited /\ edited' = FALSE /\ fresh' = FALSE
        /\ UNCHANGED <<scanScheduled, forcedRequested, forcedPaths, marking, scanner, initialScanFinished,
                       initialCompleted, need, receiver, healthy, started, ctxDone, done, events>>
    BY <1>3 DEF PullTakes
  <2>5. TypeLoop'
    BY <2>3, <2>4 DEF TypeOK, TypeLoop
  <2>6. TypeFlags'
    BY <2>3, <2>4, ZenonT(60) DEF TypeOK, TypeFlags
  <2>7. TypeRest'
    BY <2>3, <2>4 DEF TypeOK, TypeRest
  <2>8. TypeToken'
    BY <2>3, <2>4 DEF TypeOK, TypeToken
  <2> QED BY <2>5, <2>6, <2>7, <2>8, TypeParts
<1> DEFINE Ended == /\ pc' = "select" /\ job' \in Jobs /\ caller' \in Callers \cup {NoCaller}
                    /\ folder' \in Folder /\ unwatched' \in BOOLEAN
<1>4. CASE PullTakesUnhealthy
  <2>1. Ended
    BY <1>0, <1>4, PullReturnsTypes DEF PullTakesUnhealthy
  <2> QED BY <1>4, <2>1 DEF PullTakesUnhealthy, TypeOK
<1>5. CASE PullCancelled
  <2>1. Ended
    BY <1>0, <1>5, PullReturnsTypes DEF PullCancelled
  <2> QED BY <1>5, <2>1 DEF PullCancelled, TypeOK
<1>6. CASE PullSucceeds
  <2>1. Ended
    BY <1>0, <1>a, <1>6, PullReturnsTypes DEF PullSucceeds
  <2>2. need' \in BOOLEAN
    BY <1>6 DEF PullSucceeds
  <2>3. /\ token' = "free" /\ reloaded' = FALSE
        /\ UNCHANGED <<scanScheduled, forcedRequested, forcedPaths, marking, scanner, initialScanFinished,
                       initialCompleted, fresh, receiver, healthy, edited, started, ctxDone, done, events>>
    BY <1>6 DEF PullSucceeds
  <2>4. TypeLoop'
    BY <2>1, <2>2, <2>3 DEF TypeOK, TypeLoop
  <2>5. TypeFlags'
    BY <2>1, <2>2, <2>3, ZenonT(60) DEF TypeOK, TypeFlags
  <2>6. TypeRest'
    BY <2>1, <2>2, <2>3 DEF TypeOK, TypeRest
  <2>7. TypeToken'
    BY <2>1, <2>2, <2>3 DEF TypeOK, TypeToken
  <2> QED BY <2>4, <2>5, <2>6, <2>7, TypeParts
<1>7. CASE \E e \in {NoError, "db"} : PullFails(e)
  <2> PICK e \in {NoError, "db"} : PullFails(e)
    BY <1>7
  <2>1. Arm(AfterPull, "pullFail") \in Folder
    BY <1>0, <1>a, FolderTypes
  <2>2. Ended
    BY <1>0, <2>1, PullReturnsTypes DEF PullFails
  <2>3. events' \in 0..MaxEvents
    BY <1>0 DEF PullFails
  <2>4. /\ token' = "free" /\ reloaded' = FALSE
        /\ UNCHANGED <<scanScheduled, forcedRequested, forcedPaths, marking, scanner, initialScanFinished,
                       initialCompleted, need, fresh, receiver, healthy, edited, started, ctxDone, done>>
    BY DEF PullFails
  <2>5. TypeLoop'
    BY <2>2, <2>3, <2>4 DEF TypeOK, TypeLoop
  <2>6. TypeFlags'
    BY <2>2, <2>3, <2>4, ZenonT(60) DEF TypeOK, TypeFlags
  <2>7. TypeRest'
    BY <2>2, <2>3, <2>4 DEF TypeOK, TypeRest
  <2>8. TypeToken'
    BY <2>2, <2>3, <2>4 DEF TypeOK, TypeToken
  <2> QED BY <2>5, <2>6, <2>7, <2>8, TypeParts
<1>8. CASE ScanTakes
  <2>1. setState(folder, "scanning") \in Folder
    BY <1>0, FolderTypes
  <2>2. /\ pc' = "scanning" /\ job' \in Jobs /\ caller' \in Callers \cup {NoCaller}
        /\ folder' \in Folder /\ unwatched' \in BOOLEAN
    BY <1>0, <1>8, <2>1, GoesTypes DEF ScanTakes
  <2> QED BY <1>8, <2>2 DEF ScanTakes, TypeOK
<1> DEFINE Scanned ==
        /\ Ended /\ initialScanFinished' \in BOOLEAN
        /\ scanner' \in [Callers -> {"idle", "initial", "waiting", "returned"}]
<1>9. CASE ScanCancelled
  <2>1. Scanned
    BY <1>0, <1>a, <1>9, ScanReturnsTypes DEF ScanCancelled
  <2>2. /\ reloaded' = FALSE /\ pc = "scanTake"
        /\ UNCHANGED <<scanScheduled, forcedRequested, forcedPaths, marking, initialCompleted, need, fresh,
                       receiver, healthy, edited, started, ctxDone, done, events, token>>
    BY <1>9 DEF ScanCancelled
  <2>3. TypeLoop'
    BY <2>1, <2>2 DEF TypeOK, TypeLoop
  <2>4. TypeFlags'
    BY <2>1, <2>2, ZenonT(60) DEF TypeOK, TypeFlags
  <2>5. TypeRest'
    BY <2>1, <2>2 DEF TypeOK, TypeRest
  <2>6. TypeToken'
    BY <2>1, <2>2 DEF TypeOK, TypeToken
  <2> QED BY <2>3, <2>4, <2>5, <2>6, TypeParts
<1>10. CASE ScanFinds
  <2>1. Scanned
    BY <1>0, <1>a, <1>10, ScanReturnsTypes DEF ScanFinds
  <2>2. /\ token' = "free" /\ reloaded' = FALSE /\ need' \in BOOLEAN /\ events' \in 0..MaxEvents
        /\ UNCHANGED <<scanScheduled, forcedRequested, forcedPaths, marking, initialCompleted, fresh,
                       receiver, healthy, edited, started, ctxDone, done>>
    BY <1>0, <1>10 DEF ScanFinds
  <2>3. TypeLoop'
    BY <2>1, <2>2 DEF TypeOK, TypeLoop
  <2>4. TypeFlags'
    BY <2>1, <2>2 DEF TypeOK, TypeFlags
  <2>5. TypeRest'
    BY <2>1, <2>2 DEF TypeOK, TypeRest
  <2>6. TypeToken'
    BY <2>1, <2>2 DEF TypeOK, TypeToken
  <2> QED BY <2>3, <2>4, <2>5, <2>6, TypeParts
<1>11. CASE ScanFindsNothing
  <2>1. Scanned
    BY <1>0, <1>a, <1>11, ScanReturnsTypes DEF ScanFindsNothing
  <2>2. /\ token' = "free" /\ reloaded' = FALSE
        /\ UNCHANGED <<scanScheduled, forcedRequested, forcedPaths, marking, initialCompleted, need, fresh,
                       receiver, healthy, edited, started, ctxDone, done, events>>
    BY <1>11 DEF ScanFindsNothing
  <2>3. TypeLoop'
    BY <2>1, <2>2 DEF TypeOK, TypeLoop
  <2>4. TypeFlags'
    BY <2>1, <2>2, ZenonT(60) DEF TypeOK, TypeFlags
  <2>5. TypeRest'
    BY <2>1, <2>2 DEF TypeOK, TypeRest
  <2>6. TypeToken'
    BY <2>1, <2>2 DEF TypeOK, TypeToken
  <2> QED BY <2>3, <2>4, <2>5, <2>6, TypeParts
<1> USE DEF CleanFrame
<1>12. CASE CleanTakes
  <2>1. setState(folder, "cleaning") \in Folder
    BY <1>0, FolderTypes
  <2>2. /\ pc' = "cleaning" /\ job' \in Jobs /\ caller' \in Callers \cup {NoCaller}
        /\ folder' \in Folder /\ unwatched' \in BOOLEAN
    BY <1>0, <1>12, <2>1, GoesTypes DEF CleanTakes
  <2> QED BY <1>12, <2>2 DEF CleanTakes, TypeOK
<1>13. CASE CleanCancelled
  <2>1. setState(folder, "idle") \in Folder
    BY <1>0, FolderTypes
  <2>2. Ended
    BY <1>0, <1>13, <2>1, BackTypes DEF CleanCancelled
  <2> QED BY <1>13, <2>2 DEF CleanCancelled, TypeOK
<1>14. CASE CleanEnds
  <2>1. Arm(folder, "clean") \in Folder
    BY <1>0, FolderTypes
  <2>2. setState(Arm(folder, "clean"), "idle") \in Folder
    BY <1>0, <2>1, FolderTypes
  <2>3. Ended
    BY <1>0, <1>14, <2>2, BackTypes DEF CleanEnds
  <2> QED BY <1>14, <2>3 DEF CleanEnds, TypeOK
<1> QED BY <1>1, <1>2, <1>3, <1>4, <1>5, <1>6, <1>7, <1>8, <1>9, <1>10, <1>11, <1>12, <1>13, <1>14
        DEF Run

(* So do the other goroutines.                                              *)
LEMMA OutsideTypes ==
    ASSUME TypeOK, Outside
    PROVE  TypeOK'
<1> USE DEF own, asked, scans, needs, disk, life
<1>0. MaxEvents \in Nat /\ (Event => events' \in 0..MaxEvents)
  BY FolderRunnerAssumption DEF TypeOK, FolderRunnerAssumption, Event
<1>1. CASE Receive
  BY <1>0, <1>1 DEF Receive, TypeOK
<1>2. CASE ReceiveEnds
  <2>1. "idle" \in States /\ "scan" \in Timers /\ NoError \in Errors \cup {NoError}
    BY DEF States, Timers
  <2>2. SchedulePull(folder) \in Folder
    BY <2>1, FolderTypes DEF TypeOK
  <2> QED BY <1>2, <2>2 DEF ReceiveEnds, TypeOK
<1>3. CASE ScheduleScan
  BY <1>0, <1>3 DEF ScheduleScan, TypeOK
<1>4. CASE \E p \in Paths : ScheduleForceRescan(p) \/ RequestRescan(p)
  <2> PICK p \in Paths : ScheduleForceRescan(p) \/ RequestRescan(p)
    BY <1>4
  <2>1. forcedPaths' \subseteq Paths /\ marking' \subseteq Paths /\ events' \in 0..MaxEvents
    BY <1>0 DEF ScheduleForceRescan, RequestRescan, TypeOK
  <2>2. scanScheduled' \in BOOLEAN /\ forcedRequested' \in BOOLEAN
    BY DEF ScheduleForceRescan, RequestRescan, TypeOK
  <2>3. CASE ScheduleForceRescan(p)
    BY <2>1, <2>2, <2>3 DEF ScheduleForceRescan, TypeOK
  <2>4. CASE RequestRescan(p)
    BY <2>1, <2>2, <2>4 DEF RequestRescan, TypeOK
  <2> QED BY <2>3, <2>4
<1>5. CASE \E c \in Callers : Scan(c) \/ doInSync(c) \/ doInSyncEnds(c)
  BY <1>5 DEF Scan, doInSync, doInSyncEnds, ScannerFrame, TypeOK
<1>6. CASE HealthChanges
  BY <1>0, <1>6 DEF HealthChanges, TypeOK
<1>7. CASE IgnoresChange
  BY <1>0, <1>7 DEF IgnoresChange, TypeOK
<1>8. CASE OtherTakes \/ OtherGives
  BY <1>0, <1>8 DEF OtherTakes, OtherGives, TypeOK
<1>9. CASE Cancel
  BY <1>0, <1>9 DEF Cancel, TypeOK
<1> QED BY <1>1, <1>2, <1>3, <1>4, <1>5, <1>6, <1>7, <1>8, <1>9 DEF Outside

(* A new folder has the types.                                              *)
LEMMA InitTypes == Init => TypeOK
<1> SUFFICES ASSUME Init PROVE TypeOK
  OBVIOUS
<1>1. MaxEvents \in Nat /\ PauseLimit \in Nat
  BY FolderRunnerAssumption DEF FolderRunnerAssumption
<1>2. folder \in Folder
  BY <1>1 DEF Init, Folder, States, Timers, Errors, NoError
<1>3. scanner \in [Callers -> {"idle", "initial", "waiting", "returned"}]
  BY DEF Init
<1>4. pc = "starting" /\ token = "free" /\ job \in Jobs /\ caller \in Callers \cup {NoCaller}
  BY DEF Init, Jobs
<1>5. events \in 0..MaxEvents /\ forcedPaths \subseteq Paths /\ marking \subseteq Paths
  BY <1>1 DEF Init
<1>6. /\ scanScheduled \in BOOLEAN /\ forcedRequested \in BOOLEAN
      /\ initialScanFinished \in BOOLEAN /\ initialCompleted \in BOOLEAN
      /\ need \in BOOLEAN /\ fresh \in BOOLEAN /\ receiver \in {"idle", "stored"}
      /\ healthy \in BOOLEAN /\ edited \in BOOLEAN /\ reloaded \in BOOLEAN
      /\ started \in BOOLEAN /\ unwatched \in BOOLEAN /\ ctxDone \in BOOLEAN /\ done \in BOOLEAN
  BY DEF Init
<1> QED BY <1>2, <1>3, <1>4, <1>5, <1>6 DEF TypeOK

(* The loop of a folder holds a token of ioLimiter exactly while it scans,  *)
(* pulls or cleans up, for any number of callers, paths and events.         *)
THEOREM TypeCorrect == Spec => []TypeOK
<1>1. TypeOK /\ [Next]_vars => TypeOK'
  <2> SUFFICES ASSUME TypeOK, [Next]_vars PROVE TypeOK'
    OBVIOUS
  <2>1. CASE Next
    BY <2>1, CaseTypes, RunTypes, OutsideTypes DEF Next
  <2>2. CASE UNCHANGED vars
    BY <2>2 DEF vars, own, asked, scans, needs, disk, life, TypeOK
  <2> QED BY <2>1, <2>2
<1> QED BY InitTypes, <1>1, PTL DEF Spec

(* No order of requests and of the loop leaves a path to be rescanned       *)
(* without a notification.                                                  *)
THEOREM RescanIsNotForgotten == Spec => []RescanNotForgotten
<1>1. Init => RescanNotForgotten
  BY DEF Init, RescanNotForgotten
<1>2. RescanNotForgotten /\ [Next]_vars => RescanNotForgotten'
  <2> SUFFICES ASSUME RescanNotForgotten, [Next]_vars PROVE RescanNotForgotten'
    OBVIOUS
  <2> USE DEF RescanNotForgotten, asked
  <2>1. CASE CaseForcedRescan
    BY <2>1 DEF CaseForcedRescan
  <2>2. CASE Case /\ ~CaseForcedRescan
    BY <2>2 DEF Case, CaseDone, CasePullScheduled, CasePullTimer, CasePullFailTimer,
       CaseInitialCompleted, CaseScanTimer, CaseDoInSync, CaseScanDelay, CaseScanScheduled,
       CaseWatch, CaseRestartWatch, CaseCleanTimer, CaseHealthTimer, ScanFrame, CleanFrame
  <2>3. CASE Run
    BY <2>3 DEF Run, StartFails, Start, PullTakes, PullTakesUnhealthy, PullCancelled,
       PullSucceeds, PullFails, ScanTakes, ScanCancelled, ScanFinds, ScanFindsNothing,
       CleanTakes, CleanCancelled, CleanEnds, CleanFrame
  <2>4. CASE \E p \in Paths : ScheduleForceRescan(p) \/ RequestRescan(p)
    BY <2>4 DEF ScheduleForceRescan, RequestRescan
  <2>5. CASE Outside /\ ~(\E p \in Paths : ScheduleForceRescan(p) \/ RequestRescan(p))
    BY <2>5 DEF Outside, Receive, ReceiveEnds, ScheduleScan, Scan, doInSync, doInSyncEnds,
       ScannerFrame, HealthChanges, IgnoresChange, OtherTakes, OtherGives, Cancel
  <2>6. CASE UNCHANGED vars
    BY <2>6 DEF vars
  <2> QED BY <2>1, <2>2, <2>3, <2>4, <2>5, <2>6 DEF Next
<1> QED BY <1>1, <1>2, PTL DEF Spec

-----------------------------------------------------------------------------
(* The watcher.                                                             *)

WatchInv == (~ctxDone /\ ~unwatched /\ pc # "starting") => Watched(folder)

(* Every case leaves a sound record.                                        *)
LEMMA CaseMoves ==
    ASSUME TypeOK, Case
    PROVE  Moves
<1>0. /\ folder \in Folder /\ ctxDone \in BOOLEAN
      /\ {"scan", "pull", "pullFail", "clean", "health"} \subseteq Timers
      /\ {"idle", "sync-waiting", "clean-waiting"} \subseteq States
      /\ Errors \cup {NoError} = {"path", "db", NoError}
      /\ {"pull", "retry", "timer", "sync", "forced", "watch", "restart"} \subseteq Jobs
  BY DEF TypeOK, Timers, States, Errors, Jobs
<1>a. Sound(folder)
  BY <1>0 DEF Sound
<1>b. \A t \in Timers : /\ Sound(Arm(folder, t)) /\ Arm(folder, t) \in Folder
                        /\ Sound(Stop(folder, t)) /\ Stop(folder, t) \in Folder
  <2> SUFFICES ASSUME NEW t \in Timers
               PROVE  /\ Sound(Arm(folder, t)) /\ Arm(folder, t) \in Folder
                      /\ Sound(Stop(folder, t)) /\ Stop(folder, t) \in Folder
    OBVIOUS
  <2> QED BY <1>0, <1>a, FolderTypes, SoundKept
<1>1. CASE CaseDone
  <2> DEFINE f == [folder EXCEPT !.timers = @ \ {"scan", "clean", "health"}, !.state = "idle"]
  <2>1. f \in Folder /\ f.err = folder.err /\ (Watched(folder) => Watched(f))
    BY <1>0 DEF Folder, Watched
  <2>2. Goes("stopped", "none", NoCaller, f)
    BY <1>1 DEF CaseDone
  <2> HIDE DEF f
  <2> QED BY <2>1, <2>2 DEF Goes, Moves, Sound
<1>2. CASE CasePullScheduled
  <2> DEFINE f == [folder EXCEPT !.pullScheduled = FALSE]
             g == IF need THEN setState(f, "sync-waiting") ELSE f
  <2>1. f \in Folder /\ f.err = folder.err /\ (Watched(folder) => Watched(f))
    BY <1>0 DEF Folder, Watched
  <2>2. \/ Back(Arm(g, "pull"), NoError) /\ UNCHANGED events
        \/ BeginPull(f, "pull")
    BY <1>2 DEF CasePullScheduled
  <2>3. Sound(f)
    <3> HIDE DEF f
    <3> QED BY <2>1 DEF Sound
  <2>4. g \in Folder /\ Sound(g)
    <3> HIDE DEF f
    <3> QED BY <1>0, <2>1, <2>3, FolderTypes, SoundKept
  <2> HIDE DEF f, g
  <2>5. Arm(g, "pull") \in Folder /\ Sound(Arm(g, "pull"))
    BY <1>0, <2>4, FolderTypes, SoundKept
  <2> QED BY <1>0, <2>1, <2>2, <2>3, <2>5, BackMoves, BeginPullMoves
<1>3. CASE CasePullTimer
  <2>1. /\ setState(Stop(folder, "pull"), "idle") \in Folder
        /\ Sound(setState(Stop(folder, "pull"), "idle"))
    BY <1>0, <1>b, FolderTypes, SoundKept
  <2> QED BY <1>0, <1>3, <2>1, BeginPullMoves DEF CasePullTimer
<1>4. CASE CasePullFailTimer
  BY <1>0, <1>a, <1>4, BeginPullMoves DEF CasePullFailTimer
<1>5. CASE CaseInitialCompleted
  BY <1>0, <1>a, <1>5, BeginPullMoves DEF CaseInitialCompleted
<1>6. CASE CaseForcedRescan
  BY <1>0, <1>a, <1>6, BackMoves, BeginScanMoves DEF CaseForcedRescan
<1>7. CASE CaseScanTimer
  BY <1>0, <1>b, <1>7, BeginScanMoves DEF CaseScanTimer
<1>8. CASE \E c \in Callers : CaseDoInSync(c)
  BY <1>0, <1>a, <1>8, BeginScanMoves DEF CaseDoInSync
<1>9. CASE CaseScanDelay \/ CaseScanScheduled
  BY <1>0, <1>b, <1>9, BackMoves DEF CaseScanDelay, CaseScanScheduled
<1>10. CASE CaseWatch
  BY <1>0, <1>a, <1>10, BeginScanMoves DEF CaseWatch
<1>11. CASE CaseRestartWatch
  <2> DEFINE f == [folder EXCEPT !.restartWatch = FALSE, !.watching = TRUE]
  <2>1. f \in Folder /\ Watched(f)
    BY <1>0 DEF Folder, Watched
  <2>2. BeginScan(f, "restart", NoCaller)
    BY <1>11 DEF CaseRestartWatch
  <2> HIDE DEF f
  <2>3. Sound(f)
    BY <2>1 DEF Sound
  <2> QED BY <1>0, <2>1, <2>2, <2>3, BeginScanMoves
<1>12. CASE CaseCleanTimer
  <2>1. Sound(setState(Stop(folder, "clean"), "clean-waiting"))
    BY <1>0, <1>b, SoundKept
  <2> QED BY <1>12, <2>1 DEF CaseCleanTimer, Goes, Moves
<1>13. CASE CaseHealthTimer
  <2>1. setError(folder, NoError) \in Folder /\ Sound(setError(folder, NoError))
    BY <1>0, <1>a, FolderTypes, SoundKept
  <2> QED BY <1>0, <1>a, <1>13, <2>1, BackMoves DEF CaseHealthTimer
<1> QED BY <1>1, <1>2, <1>3, <1>4, <1>5, <1>6, <1>7, <1>8, <1>9, <1>10, <1>11, <1>12, <1>13 DEF Case

(* So do the deferred functions of scans and pulls.                         *)
LEMMA AfterSound ==
    ASSUME TypeOK, NEW changes \in BOOLEAN
    PROVE  Sound(AfterPull) /\ Sound(AfterScan(changes))
<1>1. folder \in Folder /\ ctxDone \in BOOLEAN /\ "idle" \in States /\ "scan" \in Timers
      /\ NoError \in Errors \cup {NoError}
  BY DEF TypeOK, States, Timers
<1>2. Sound(folder)
  BY <1>1 DEF Sound
<1> DEFINE f == setState(folder, "idle")
<1>3. f \in Folder /\ Sound(f)
  BY <1>1, <1>2, FolderTypes, SoundKept
<1> HIDE DEF f
<1>4. ignoresUpdated(f) \in Folder /\ Sound(ignoresUpdated(f))
  BY <1>1, <1>3, FolderTypes, SoundKept
<1>5. /\ SchedulePull(f) \in Folder /\ Sound(SchedulePull(f))
      /\ SchedulePull(ignoresUpdated(f)) \in Folder /\ Sound(SchedulePull(ignoresUpdated(f)))
  BY <1>1, <1>3, <1>4, FolderTypes, SoundKept
<1>6. Sound(SchedulePull(SchedulePull(ignoresUpdated(f))))
  BY <1>1, <1>5, SoundKept
<1>7. Sound(AfterPull)
  BY <1>3, <1>4 DEF AfterPull, f
<1>8. Sound(AfterScan(changes))
  BY <1>3, <1>5, <1>6 DEF AfterScan, f
<1> QED BY <1>7, <1>8

(* So does every step after the start.                                      *)
LEMMA RunMoves ==
    ASSUME TypeOK, Run, pc # "starting"
    PROVE  Moves
<1>0. /\ folder \in Folder /\ ctxDone \in BOOLEAN /\ "pullFail" \in Timers /\ "clean" \in Timers
      /\ {"idle", "syncing", "scanning", "cleaning"} \subseteq States
      /\ Errors \cup {NoError} = {"path", "db", NoError}
  BY DEF TypeOK, Timers, States, Errors
<1>a. Sound(folder)
  BY <1>0 DEF Sound
<1>b. /\ AfterPull \in Folder /\ Sound(AfterPull)
      /\ \A b \in BOOLEAN : AfterScan(b) \in Folder /\ Sound(AfterScan(b))
  BY AfterTypes, AfterSound
<1>1. CASE PullTakes
  <2>1. setError(folder, NoError) \in Folder /\ Sound(setError(folder, NoError))
    BY <1>0, <1>a, FolderTypes, SoundKept
  <2>2. Sound(setState(setError(folder, NoError), "syncing"))
    BY <1>0, <2>1, SoundKept
  <2> QED BY <1>1, <2>2 DEF PullTakes, Goes, Moves
<1>2. CASE PullTakesUnhealthy \/ PullCancelled
  BY <1>0, <1>a, <1>2, PullReturnsMoves DEF PullTakesUnhealthy, PullCancelled
<1>3. CASE PullSucceeds
  BY <1>0, <1>b, <1>3, PullReturnsMoves DEF PullSucceeds
<1>4. CASE \E e \in {NoError, "db"} : PullFails(e)
  <2>1. /\ Arm(AfterPull, "pullFail") \in Folder /\ Sound(Arm(AfterPull, "pullFail"))
    BY <1>0, <1>b, FolderTypes, SoundKept
  <2> QED BY <1>0, <1>4, <2>1, PullReturnsMoves DEF PullFails
<1>5. CASE ScanTakes
  <2>1. Sound(setState(folder, "scanning"))
    BY <1>0, <1>a, SoundKept
  <2> QED BY <1>5, <2>1 DEF ScanTakes, Goes, Moves
<1>6. CASE ScanCancelled
  BY <1>0, <1>b, <1>6, ScanReturnsMoves DEF ScanCancelled
<1>7. CASE ScanFinds
  BY <1>0, <1>b, <1>7, ScanReturnsMoves DEF ScanFinds
<1>8. CASE ScanFindsNothing
  BY <1>0, <1>b, <1>8, ScanReturnsMoves DEF ScanFindsNothing
<1>9. CASE CleanTakes
  <2>1. Sound(setState(folder, "cleaning"))
    BY <1>0, <1>a, SoundKept
  <2> QED BY <1>9, <2>1 DEF CleanTakes, Goes, Moves
<1>10. CASE CleanCancelled
  <2>1. setState(folder, "idle") \in Folder /\ Sound(setState(folder, "idle"))
    BY <1>0, <1>a, FolderTypes, SoundKept
  <2> QED BY <1>0, <1>10, <2>1, BackMoves DEF CleanCancelled
<1>11. CASE CleanEnds
  <2>1. Arm(folder, "clean") \in Folder /\ Sound(Arm(folder, "clean"))
    BY <1>0, <1>a, FolderTypes, SoundKept
  <2>2. /\ setState(Arm(folder, "clean"), "idle") \in Folder
        /\ Sound(setState(Arm(folder, "clean"), "idle"))
    BY <1>0, <2>1, FolderTypes, SoundKept
  <2> QED BY <1>0, <1>11, <2>2, BackMoves DEF CleanEnds
<1> QED BY <1>1, <1>2, <1>3, <1>4, <1>5, <1>6, <1>7, <1>8, <1>9, <1>10, <1>11
        DEF Run, StartFails, Start

(* WatchInv is inductive.                                                   *)
LEMMA WatchStep ==
    ASSUME TypeOK, WatchInv, [Next]_vars
    PROVE  WatchInv'
<1>0. folder \in Folder /\ ctxDone \in BOOLEAN
  BY DEF TypeOK
<1>1. ASSUME pc # "starting", ctxDone' = ctxDone, Moves PROVE WatchInv'
  BY <1>1 DEF Moves, Sound, WatchInv, Watched
<1>2. CASE Case
  <2>1. pc # "starting" /\ ctxDone' = ctxDone
    BY <1>2 DEF Case, CaseDone, CasePullScheduled, CasePullTimer, CasePullFailTimer,
       CaseInitialCompleted, CaseForcedRescan, CaseScanTimer, CaseDoInSync, CaseScanDelay,
       CaseScanScheduled, CaseWatch, CaseRestartWatch, CaseCleanTimer, CaseHealthTimer,
       ScanFrame, CleanFrame
  <2> QED BY <1>1, <1>2, <2>1, CaseMoves
<1>3. CASE StartFails
  BY <1>3 DEF StartFails, Goes, WatchInv
<1>4. CASE Start
  <2> DEFINE watch == Watcher /\ healthy
  <2>1. /\ unwatched' = (Watcher /\ ~watch)
        /\ folder' = [folder EXCEPT !.watching = watch,
                                    !.state = IF Drains THEN "starting" ELSE "idle"]
    BY <1>4 DEF Start
  <2>2. folder'.watching = watch
    <3> HIDE DEF watch
    <3> QED BY <1>0, <2>1 DEF Folder
  <2> QED BY <2>1, <2>2 DEF WatchInv, Watched
<1>5. CASE Run /\ ~StartFails /\ ~Start
  <2>1. pc # "starting" /\ ctxDone' = ctxDone
    BY <1>5 DEF Run, PullTakes, PullTakesUnhealthy, PullCancelled,
       PullSucceeds, PullFails, ScanTakes, ScanCancelled, ScanFinds, ScanFindsNothing,
       CleanTakes, CleanCancelled, CleanEnds, CleanFrame
  <2> QED BY <1>1, <1>5, <2>1, RunMoves
<1>6. CASE ReceiveEnds
  <2>1. Watched(folder) => Watched(SchedulePull(folder))
    BY <1>0 DEF SchedulePull, Watched, Folder
  <2> QED BY <1>6, <2>1 DEF ReceiveEnds, life, WatchInv, Watched
<1>7. CASE Cancel
  BY <1>7 DEF Cancel, WatchInv
<1>8. CASE Outside /\ ~ReceiveEnds /\ ~Cancel
  <2>1. UNCHANGED <<pc, folder, ctxDone, unwatched>>
    BY <1>8 DEF Outside, Receive, ScheduleScan, ScheduleForceRescan, RequestRescan, Scan,
       doInSync, doInSyncEnds, ScannerFrame, HealthChanges, IgnoresChange, OtherTakes,
       OtherGives, own, life
  <2> QED BY <2>1 DEF WatchInv, Watched
<1>9. CASE UNCHANGED vars
  BY <1>9 DEF vars, own, life, WatchInv, Watched
<1> QED BY <1>2, <1>3, <1>4, <1>5, <1>6, <1>7, <1>8, <1>9 DEF Next

(* A folder without an error is watched, or its watcher will be restarted,  *)
(* whatever fails and recovers, for any callers, paths and events.          *)
THEOREM WatchedIfHealthy == Spec => []WatchedWhenHealthy
<1>1. Init => WatchInv
  BY DEF Init, WatchInv
<1>2. WatchInv => WatchedWhenHealthy
  BY DEF WatchInv, WatchedWhenHealthy, Watched
<1> QED BY <1>1, <1>2, WatchStep, TypeCorrect, PTL DEF Spec

-----------------------------------------------------------------------------
(* The pull that is to come.  The record of the folder says so by itself,   *)
(* or a receive is about to, or the initial scan is not over.  While a pull *)
(* waits for its token nothing more is asked; one that runs has seen all    *)
(* but what came in since.                                                  *)

Coming == initialCompleted \/ receiver = "stored" \/ Waits(folder)

NeedInv ==
    /\ ~initialScanFinished => initialCompleted
    /\ (~ctxDone /\ need /\ pc \notin {"pullTake", "pulling", "stopped"}) => Coming
    /\ (~ctxDone /\ need /\ fresh /\ pc = "pulling") =>
            folder.pullScheduled \/ receiver = "stored"

(* The initial scan, once over, stays so.                                   *)
LEMMA ScanOver ==
    ASSUME NEW f, NEW e, NEW by, NEW c, initialScanFinished
    PROVE  /\ ScanReturns(f, e, by, c) => initialScanFinished'
           /\ BeginScan(f, by, c) => initialScanFinished'
<1>1. \A x : ScanReturns(f, x, by, c) => initialScanFinished'
  BY DEF ScanReturns
<1>2. BeginScan(f, by, c) => initialScanFinished'
  BY <1>1 DEF BeginScan
<1> QED BY <1>1, <1>2

(* The cases of the select keep NeedInv.                                    *)
LEMMA CaseNeed ==
    ASSUME TypeOK, NeedInv, Case, ~ctxDone
    PROVE  NeedInv'
<1> USE DEF scans, needs
<1>0. /\ folder \in Folder /\ ctxDone \in BOOLEAN /\ need \in BOOLEAN
      /\ initialScanFinished \in BOOLEAN
      /\ {"scan", "pull", "pullFail", "clean", "health"} \subseteq Timers
      /\ {"idle", "sync-waiting", "clean-waiting"} \subseteq States
      /\ Errors \cup {NoError} = {"path", "db", NoError} /\ "path" # NoError
  BY DEF TypeOK, Timers, States, Errors, NoError
<1>a. ASSUME UNCHANGED <<initialCompleted, needs>>, pc = "select",
             initialScanFinished => initialScanFinished', pc' # "pulling",
             (need /\ Waits(folder)) => Waits(folder')
      PROVE  NeedInv'
  BY <1>a DEF NeedInv, Coming, Waits
<1>b. ASSUME UNCHANGED <<initialScanFinished, initialCompleted, needs>>, pc = "select",
             pc' # "pulling",
             need => pc' = "pullTake" \/ Waits(folder') \/ ~initialScanFinished
      PROVE  NeedInv'
  BY <1>b DEF NeedInv, Coming, Waits
<1>c. \A t \in {"scan", "clean"} : \A s \in States :
        /\ Arm(folder, t) \in Folder /\ Stop(folder, t) \in Folder
        /\ Waits(folder) => Waits(Arm(folder, t)) /\ Waits(Stop(folder, t))
        /\ Waits(folder) => Waits(setState(Stop(folder, t), s))
  <2> SUFFICES ASSUME NEW t \in {"scan", "clean"}, NEW s \in States
               PROVE  /\ Arm(folder, t) \in Folder /\ Stop(folder, t) \in Folder
                      /\ Waits(folder) => Waits(Arm(folder, t)) /\ Waits(Stop(folder, t))
                      /\ Waits(folder) => Waits(setState(Stop(folder, t), s))
    OBVIOUS
  <2>1. t \in Timers
    BY <1>0
  <2>2. Arm(folder, t) \in Folder /\ Stop(folder, t) \in Folder
    BY <1>0, <2>1, FolderTypes
  <2>3. Waits(folder) => Waits(Arm(folder, t)) /\ Waits(Stop(folder, t))
    BY <1>0, <2>1, FolderKeeps
  <2>4. Waits(Stop(folder, t)) => Waits(setState(Stop(folder, t), s))
    BY <1>0, <2>1, <2>2, FolderKeeps
  <2> QED BY <2>2, <2>3, <2>4
<1>1. CASE CaseDone
  BY <1>1 DEF CaseDone
<1>2. CASE CasePullScheduled
  <2> DEFINE f == [folder EXCEPT !.pullScheduled = FALSE]
             g == IF need THEN setState(f, "sync-waiting") ELSE f
  <2>1. f \in Folder
    BY <1>0 DEF Folder
  <2>2. /\ UNCHANGED <<initialScanFinished, initialCompleted, needs>> /\ pc = "select"
        /\ \/ Back(Arm(g, "pull"), NoError)
           \/ BeginPull(f, "pull")
    BY <1>2 DEF CasePullScheduled
  <2>3. g \in Folder
    <3> HIDE DEF f
    <3> QED BY <1>0, <2>1, FolderTypes
  <2> HIDE DEF f, g
  <2>4. Waits(Arm(g, "pull")) /\ Arm(g, "pull") \in Folder
    BY <1>0, <2>3, FolderTypes, FolderKeeps
  <2>5. CASE Back(Arm(g, "pull"), NoError)
    <3>1. Waits(folder')
      BY <1>0, <2>4, <2>5, BackWaits
    <3>2. pc' # "pulling"
      BY <2>5 DEF Back
    <3> QED BY <1>b, <2>2, <3>1, <3>2
  <2>6. CASE BeginPull(f, "pull")
    <3>1. pc' # "pulling"
      BY <2>6 DEF BeginPull, Back, Goes, PullReturns
    <3>2. need => pc' = "pullTake" \/ Waits(folder') \/ ~initialScanFinished
      BY <1>0, <2>1, <2>6, BeginPullWaits
    <3> QED BY <1>b, <2>2, <3>1, <3>2
  <2> QED BY <2>2, <2>5, <2>6
<1>3. CASE CasePullTimer
  <2> DEFINE f == setState(Stop(folder, "pull"), "idle")
  <2>1. f \in Folder
    <3>1. Stop(folder, "pull") \in Folder
      BY <1>0, FolderTypes
    <3> QED BY <1>0, <3>1, FolderTypes
  <2>2. /\ UNCHANGED <<initialScanFinished, initialCompleted, needs>> /\ pc = "select"
        /\ BeginPull(f, "pull")
    BY <1>3 DEF CasePullTimer
  <2> HIDE DEF f
  <2>3. pc' # "pulling"
    BY <2>2 DEF BeginPull, Back, Goes, PullReturns
  <2>4. need => pc' = "pullTake" \/ Waits(folder') \/ ~initialScanFinished
    BY <1>0, <2>1, <2>2, BeginPullWaits
  <2> QED BY <1>b, <2>2, <2>3, <2>4
<1>4. CASE CasePullFailTimer
  <2>1. /\ UNCHANGED <<initialScanFinished, initialCompleted, needs>> /\ pc = "select"
        /\ BeginPull(folder, "retry")
    BY <1>4 DEF CasePullFailTimer
  <2>2. pc' # "pulling"
    BY <2>1 DEF BeginPull, Back, Goes, PullReturns
  <2>3. need => pc' = "pullTake" \/ Waits(folder') \/ ~initialScanFinished
    BY <1>0, <2>1, BeginPullWaits
  <2> QED BY <1>b, <2>1, <2>2, <2>3
<1>5. CASE CaseInitialCompleted
  <2>1. /\ UNCHANGED <<initialScanFinished, needs, ctxDone>> /\ initialScanFinished
        /\ BeginPull(folder, "pull")
    BY <1>5 DEF CaseInitialCompleted
  <2>2. pc' # "pulling"
    BY <2>1 DEF BeginPull, Back, Goes, PullReturns
  <2>3. need => pc' = "pullTake" \/ Waits(folder')
    BY <1>0, <2>1, BeginPullWaits
  <2> QED BY <2>1, <2>2, <2>3 DEF NeedInv, Coming, Waits
<1>d. ASSUME NEW f \in Folder, NEW by, NEW c, BeginScan(f, by, c),
             UNCHANGED <<initialCompleted, needs>>, pc = "select", Waits(folder) => Waits(f)
      PROVE  NeedInv'
  <2>1. pc' # "pulling"
    BY <1>d DEF BeginScan, ScanReturns, Back, Goes
  <2>2. Waits(folder) => Waits(folder')
    BY <1>0, <1>d, BeginScanWaits
  <2>3. initialScanFinished => initialScanFinished'
    BY <1>d, ScanOver
  <2> QED BY <1>a, <1>d, <2>1, <2>2, <2>3
<1>e. ASSUME NEW f \in Folder, NEW e \in Errors \cup {NoError}, Back(f, e),
             UNCHANGED <<initialScanFinished, initialCompleted, needs>>, pc = "select",
             Waits(folder) => Waits(f)
      PROVE  NeedInv'
  <2>1. pc' # "pulling"
    BY <1>e DEF Back
  <2>2. Waits(folder) => Waits(folder')
    BY <1>0, <1>e, BackWaits
  <2> QED BY <1>a, <1>e, <2>1, <2>2
<1>6. CASE CaseForcedRescan
  BY <1>0, <1>d, <1>e, <1>6 DEF CaseForcedRescan
<1> USE DEF ScanFrame
<1>7. CASE CaseScanTimer
  <2>1. Stop(folder, "scan") \in Folder /\ (Waits(folder) => Waits(Stop(folder, "scan")))
    BY <1>0, <1>c
  <2> QED BY <1>d, <1>7, <2>1 DEF CaseScanTimer
<1>8. CASE \E c \in Callers : CaseDoInSync(c)
  BY <1>0, <1>d, <1>8 DEF CaseDoInSync
<1>9. CASE CaseScanDelay \/ CaseScanScheduled
  <2>1. Arm(folder, "scan") \in Folder /\ (Waits(folder) => Waits(Arm(folder, "scan")))
    BY <1>0, <1>c
  <2> QED BY <1>0, <1>e, <1>9, <2>1 DEF CaseScanDelay, CaseScanScheduled
<1>10. CASE CaseWatch
  BY <1>0, <1>d, <1>10 DEF CaseWatch
<1>11. CASE CaseRestartWatch
  <2> DEFINE f == [folder EXCEPT !.restartWatch = FALSE, !.watching = TRUE]
  <2>1. f \in Folder /\ (Waits(folder) => Waits(f))
    BY <1>0 DEF Folder, Waits
  <2>2. BeginScan(f, "restart", NoCaller)
    BY <1>11 DEF CaseRestartWatch
  <2> HIDE DEF f
  <2> QED BY <1>d, <1>11, <2>1, <2>2 DEF CaseRestartWatch
<1> USE DEF CleanFrame
<1>12. CASE CaseCleanTimer
  <2>1. Waits(folder) => Waits(setState(Stop(folder, "clean"), "clean-waiting"))
    BY <1>0, <1>c
  <2> QED BY <1>a, <1>12, <2>1 DEF CaseCleanTimer, Goes
<1>13. CASE CaseHealthTimer
  <2>1. /\ setError(folder, NoError) \in Folder
        /\ Waits(folder) => Waits(setError(folder, NoError))
    BY <1>0, FolderTypes, FolderKeeps
  <2> QED BY <1>0, <1>e, <1>13, <2>1 DEF CaseHealthTimer
<1> QED BY <1>1, <1>2, <1>3, <1>4, <1>5, <1>6, <1>7, <1>8, <1>9, <1>10, <1>11, <1>12, <1>13 DEF Case

(* The deferred functions take nothing away.                                *)
LEMMA AfterWaits ==
    ASSUME TypeOK, ~ctxDone
    PROVE  /\ Waits(folder) => Waits(AfterPull) /\ Waits(AfterScan(FALSE))
           /\ Waits(AfterScan(TRUE))
           /\ AfterPull.pullScheduled = folder.pullScheduled
<1>1. /\ folder \in Folder /\ ctxDone \in BOOLEAN /\ "idle" \in States /\ "scan" \in Timers
      /\ NoError \in Errors \cup {NoError}
  BY DEF TypeOK, States, Timers
<1> DEFINE f == setState(folder, "idle")
<1>2. f \in Folder /\ (Waits(folder) => Waits(f)) /\ f.pullScheduled = folder.pullScheduled
  BY <1>1, FolderTypes, FolderKeeps DEF setState, Folder
<1> HIDE DEF f
<1>3. /\ ignoresUpdated(f) \in Folder /\ (Waits(f) => Waits(ignoresUpdated(f)))
      /\ ignoresUpdated(f).pullScheduled = f.pullScheduled
  BY <1>1, <1>2, FolderTypes, FolderKeeps DEF ignoresUpdated, Folder
<1>4. /\ Waits(SchedulePull(f)) /\ Waits(SchedulePull(ignoresUpdated(f)))
      /\ SchedulePull(ignoresUpdated(f)) \in Folder
  BY <1>1, <1>2, <1>3, FolderTypes, FolderKeeps
<1>5. Waits(SchedulePull(SchedulePull(ignoresUpdated(f))))
  BY <1>1, <1>4, FolderKeeps
<1>6. (Waits(folder) => Waits(AfterPull)) /\ AfterPull.pullScheduled = folder.pullScheduled
  BY <1>2, <1>3 DEF AfterPull, f
<1>7. (Waits(folder) => Waits(AfterScan(FALSE))) /\ Waits(AfterScan(TRUE))
  BY <1>2, <1>4, <1>5 DEF AfterScan, f
<1> QED BY <1>6, <1>7

(* The steps of what the cases run keep NeedInv.                            *)
LEMMA RunNeed ==
    ASSUME TypeOK, NeedInv, Run, ~ctxDone
    PROVE  NeedInv'
<1> USE DEF scans, needs
<1>0. /\ folder \in Folder /\ ctxDone \in BOOLEAN /\ need \in BOOLEAN /\ fresh \in BOOLEAN
      /\ "pullFail" \in Timers /\ "clean" \in Timers
      /\ {"idle", "starting", "syncing", "scanning", "cleaning"} \subseteq States
      /\ Errors \cup {NoError} = {"path", "db", NoError} /\ "path" # NoError /\ "db" # NoError
  BY DEF TypeOK, Timers, States, Errors, NoError
<1>a. /\ AfterPull \in Folder
      /\ AfterScan(TRUE) \in Folder /\ AfterScan(FALSE) \in Folder
  BY AfterTypes
<1>b. ASSUME UNCHANGED <<initialScanFinished, initialCompleted, needs>>,
             pc \notin {"pullTake", "pulling", "stopped"}, pc' # "pulling",
             Waits(folder) => Waits(folder')
      PROVE  NeedInv'
  BY <1>b DEF NeedInv, Coming, Waits
<1>c. ASSUME UNCHANGED initialCompleted, initialScanFinished => initialScanFinished',
             pc' = "select", Waits(folder')
      PROVE  NeedInv'
  BY <1>c DEF NeedInv, Coming, Waits
<1>1. CASE StartFails
  <2> DEFINE f == setError(setState(folder, "starting"), "db")
             g == [f EXCEPT !.timers = @ \ {"scan", "clean", "health"}, !.state = "idle"]
  <2>1. setState(folder, "starting") \in Folder
    BY <1>0, FolderTypes
  <2>2. f \in Folder /\ Waits(f)
    BY <1>0, <2>1, FolderTypes, FolderKeeps
  <2>3. Waits(g)
    <3> HIDE DEF f
    <3> QED BY <2>2 DEF Folder, Waits
  <2>4. folder' = g /\ pc' = "starting" /\ pc = "starting"
        /\ UNCHANGED <<initialScanFinished, initialCompleted, needs>>
    BY <1>1 DEF StartFails, Goes
  <2> HIDE DEF f, g
  <2> QED BY <1>b, <2>3, <2>4
<1>2. CASE Start
  <2>1. Waits(folder) => Waits(folder')
    BY <1>0, <1>2 DEF Start, Waits, Folder
  <2>2. /\ pc = "starting" /\ pc' # "pulling"
        /\ UNCHANGED <<initialScanFinished, initialCompleted, needs>>
    BY <1>2 DEF Start
  <2> QED BY <1>b, <2>1, <2>2
<1>3. CASE PullTakes
  BY <1>3 DEF PullTakes, Goes, NeedInv, Coming
<1>4. CASE PullTakesUnhealthy
  <2>1. Waits(folder')
    BY <1>0, <1>4, PullReturnsWaits DEF PullTakesUnhealthy
  <2>2. pc' = "select" /\ UNCHANGED <<initialScanFinished, initialCompleted>>
    BY <1>4 DEF PullTakesUnhealthy, PullReturns, Back
  <2> QED BY <1>c, <2>1, <2>2
<1>5. CASE PullCancelled
  BY <1>5 DEF PullCancelled
<1>6. CASE PullSucceeds
  <2>1. pc = "pulling" /\ pc' = "select" /\ UNCHANGED <<initialScanFinished, initialCompleted>>
        /\ UNCHANGED receiver /\ need' \in {FALSE, fresh /\ need} /\ ctxDone' = ctxDone
    BY <1>6 DEF PullSucceeds, PullReturns, Back
  <2>2. folder.pullScheduled => Waits(folder')
    <3>1. folder.pullScheduled => Waits(AfterPull)
      BY <1>0, AfterWaits DEF Waits
    <3> QED BY <1>0, <1>a, <1>6, <3>1, PullReturnsWaits DEF PullSucceeds
  <2>3. CASE ~need'
    BY <2>1, <2>3 DEF NeedInv
  <2>4. CASE need'
    <3>1. fresh /\ need
      BY <2>1, <2>4
    <3>2. folder.pullScheduled \/ receiver = "stored"
      BY <2>1, <3>1 DEF NeedInv
    <3> QED BY <2>1, <2>2, <3>2 DEF NeedInv, Coming, Waits
  <2> QED BY <2>3, <2>4
<1>7. CASE \E e \in {NoError, "db"} : PullFails(e)
  <2> PICK e \in {NoError, "db"} : PullFails(e)
    BY <1>7
  <2>1. Arm(AfterPull, "pullFail") \in Folder /\ Waits(Arm(AfterPull, "pullFail"))
    BY <1>0, <1>a, FolderTypes, FolderKeeps
  <2>2. Waits(folder')
    BY <1>0, <2>1, PullReturnsWaits DEF PullFails
  <2>3. pc' = "select" /\ UNCHANGED <<initialScanFinished, initialCompleted>>
    BY DEF PullFails, PullReturns, Back
  <2> QED BY <1>c, <2>2, <2>3
<1>8. CASE ScanTakes
  <2>1. Waits(folder) => Waits(setState(folder, "scanning"))
    BY <1>0, FolderKeeps
  <2> QED BY <1>b, <1>8, <2>1 DEF ScanTakes, Goes
<1>9. CASE ScanCancelled
  BY <1>9 DEF ScanCancelled
<1>10. CASE ScanFinds
  <2>1. Waits(folder')
    <3> DEFINE f == AfterScan(TRUE)
    <3>1. PICK e \in Errors \cup {NoError} : ScanReturns(f, e, job, caller)
      BY <1>0, <1>10 DEF ScanFinds
    <3>2. f \in Folder /\ ctxDone \in BOOLEAN /\ (Waits(f))
      BY <1>0, <1>a, AfterWaits
    <3> HIDE DEF f
    <3>3. CASE Waits(f)
      BY <3>1, <3>2, <3>3, ScanReturnsWaits
    <3> QED BY <3>2, <3>3
  <2>2. /\ pc' = "select" /\ UNCHANGED initialCompleted
        /\ initialScanFinished => initialScanFinished'
    BY <1>10 DEF ScanFinds, ScanReturns, Back
  <2> QED BY <1>c, <2>1, <2>2
<1>11. CASE ScanFindsNothing
  <2>1. Waits(folder) => Waits(folder')
    <3> DEFINE f == AfterScan(FALSE)
    <3>1. PICK e \in Errors \cup {NoError} : ScanReturns(f, e, job, caller)
      BY <1>0, <1>11 DEF ScanFindsNothing
    <3>2. f \in Folder /\ ctxDone \in BOOLEAN /\ (Waits(folder) => Waits(f))
      BY <1>0, <1>a, AfterWaits
    <3> HIDE DEF f
    <3>3. CASE Waits(f)
      BY <3>1, <3>2, <3>3, ScanReturnsWaits
    <3> QED BY <3>2, <3>3
  <2>2. /\ pc = "scanning" /\ pc' = "select" /\ UNCHANGED <<initialCompleted, needs, ctxDone>>
        /\ initialScanFinished => initialScanFinished'
    BY <1>11 DEF ScanFindsNothing, ScanReturns, Back
  <2> QED BY <2>1, <2>2 DEF NeedInv, Coming, Waits
<1> USE DEF CleanFrame
<1>12. CASE CleanTakes
  <2>1. Waits(folder) => Waits(setState(folder, "cleaning"))
    BY <1>0, FolderKeeps
  <2> QED BY <1>b, <1>12, <2>1 DEF CleanTakes, Goes
<1>13. CASE CleanCancelled
  BY <1>13 DEF CleanCancelled
<1>14. CASE CleanEnds
  <2>1. Arm(folder, "clean") \in Folder /\ (Waits(folder) => Waits(Arm(folder, "clean")))
    BY <1>0, FolderTypes, FolderKeeps
  <2>2. /\ setState(Arm(folder, "clean"), "idle") \in Folder
        /\ Waits(folder) => Waits(setState(Arm(folder, "clean"), "idle"))
    BY <1>0, <2>1, FolderTypes, FolderKeeps
  <2>3. Waits(folder) => Waits(folder')
    BY <1>0, <1>14, <2>2, BackWaits DEF CleanEnds
  <2>4. /\ pc = "cleaning" /\ pc' = "select"
        /\ UNCHANGED <<initialScanFinished, initialCompleted, needs>>
    BY <1>14 DEF CleanEnds, Back
  <2> QED BY <1>b, <2>3, <2>4
<1> QED BY <1>1, <1>2, <1>3, <1>4, <1>5, <1>6, <1>7, <1>8, <1>9, <1>10, <1>11, <1>12, <1>13, <1>14
        DEF Run

(* NeedInv is inductive.                                                    *)
LEMMA NeedStep ==
    ASSUME TypeOK, NeedInv, [Next]_vars
    PROVE  NeedInv'
<1>0. folder \in Folder /\ ctxDone \in BOOLEAN
  BY DEF TypeOK
<1>1. CASE ctxDone /\ (Case \/ Run)
  <2>1. ctxDone'
    BY <1>1 DEF Case, CaseDone, CasePullScheduled, CasePullTimer, CasePullFailTimer,
       CaseInitialCompleted, CaseForcedRescan, CaseScanTimer, CaseDoInSync, CaseScanDelay,
       CaseScanScheduled, CaseWatch, CaseRestartWatch, CaseCleanTimer, CaseHealthTimer,
       ScanFrame, CleanFrame,
       Run, StartFails, Start, PullTakes, PullTakesUnhealthy, PullCancelled,
       PullSucceeds, PullFails, ScanTakes, ScanCancelled, ScanFinds, ScanFindsNothing,
       CleanTakes, CleanCancelled, CleanEnds
  <2>2. initialScanFinished => initialScanFinished'
    BY <1>1, ScanOver DEF Case, CaseDone, CasePullScheduled, CasePullTimer, CasePullFailTimer,
       CaseInitialCompleted, CaseForcedRescan, CaseScanTimer, CaseDoInSync, CaseScanDelay,
       CaseScanScheduled, CaseWatch, CaseRestartWatch, CaseCleanTimer, CaseHealthTimer,
       ScanFrame, CleanFrame, scans,
       Run, StartFails, Start, PullTakes, PullTakesUnhealthy, PullCancelled,
       PullSucceeds, PullFails, ScanTakes, ScanCancelled, ScanFinds, ScanFindsNothing,
       CleanTakes, CleanCancelled, CleanEnds
  <2>3. UNCHANGED initialCompleted \/ initialScanFinished
    BY <1>1 DEF Case, CaseDone, CasePullScheduled, CasePullTimer, CasePullFailTimer,
       CaseInitialCompleted, CaseForcedRescan, CaseScanTimer, CaseDoInSync, CaseScanDelay,
       CaseScanScheduled, CaseWatch, CaseRestartWatch, CaseCleanTimer, CaseHealthTimer,
       ScanFrame, CleanFrame, scans,
       Run, StartFails, Start, PullTakes, PullTakesUnhealthy, PullCancelled,
       PullSucceeds, PullFails, ScanTakes, ScanCancelled, ScanFinds, ScanFindsNothing,
       CleanTakes, CleanCancelled, CleanEnds
  <2> QED BY <2>1, <2>2, <2>3 DEF NeedInv
<1>2. CASE ~ctxDone /\ Case
  BY <1>2, CaseNeed
<1>3. CASE ~ctxDone /\ Run
  BY <1>3, RunNeed
<1>4. CASE Receive
  BY <1>4 DEF Receive, own, scans, life, NeedInv, Coming
<1>5. CASE ReceiveEnds
  <2>1. SchedulePull(folder).pullScheduled
    BY <1>0 DEF SchedulePull, Folder
  <2> QED BY <1>5, <2>1 DEF ReceiveEnds, scans, life, NeedInv, Coming, Waits
<1>6. CASE Cancel
  BY <1>6 DEF Cancel, scans, NeedInv
<1>7. CASE Outside /\ ~Receive /\ ~ReceiveEnds /\ ~Cancel
  <2>1. UNCHANGED <<pc, folder, ctxDone, need, fresh, receiver, initialScanFinished, initialCompleted>>
    BY <1>7 DEF Outside, ScheduleScan, ScheduleForceRescan, RequestRescan, Scan,
       doInSync, doInSyncEnds, ScannerFrame, HealthChanges, IgnoresChange, OtherTakes,
       OtherGives, own, life, scans, needs
  <2> QED BY <2>1 DEF NeedInv, Coming, Waits
<1>8. CASE UNCHANGED vars
  BY <1>8 DEF vars, own, life, scans, needs, NeedInv, Coming, Waits
<1> QED BY <1>1, <1>2, <1>3, <1>4, <1>5, <1>6, <1>7, <1>8 DEF Next

(* A needed file is never forgotten, however index updates, scans, pulls,   *)
(* errors and recoveries interleave, for any callers, paths and events.     *)
THEOREM NeedIsNotForgotten == Spec => []NeedNotForgotten
<1>1. Init => NeedInv
  BY DEF Init, NeedInv, Coming
<1>2. NeedInv => NeedNotForgotten
  BY DEF NeedInv, NeedNotForgotten, Coming, Waits
<1> QED BY <1>1, <1>2, NeedStep, TypeCorrect, PTL DEF Spec
=============================================================================
