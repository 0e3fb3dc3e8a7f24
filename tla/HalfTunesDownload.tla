------------------------- MODULE HalfTunesDownload -------------------------
(* The downloads of HalfTunes: DownloadService, the taps TrackCell forwards  *)
(* to SearchViewController on the main thread, and the URLSession delegate,  *)
(* whose callbacks run on the session's serial queue. activeDownloads is     *)
(* shared by both without a lock, so that every access to it is a step. One  *)
(* track, that is one previewURL: tracks share nothing but the queues. The   *)
(* progress bar, all that didWriteData sets, is left out.                    *)
EXTENDS Naturals, FiniteSets

CONSTANTS MaxTasks,   \* bound: download tasks the session hands out
          Size        \* pieces of one song: how often data arrives
ASSUME SongAssumption == MaxTasks \in Nat \ {0} /\ Size \in Nat \ {0}

Task == 1..MaxTasks
None == 0    \* nil

VARIABLES active,         \* activeDownloads[previewURL]: a Download or None
          dataTask,       \* per Download (named by its first task): its task
          resumeData,     \* per Download: nil, or how much the data stands for
          isDownloading,  \* per Download
          state,          \* the session's view of each task
          got,            \* pieces each task has
          handlers,       \* resume data handlers the session still has to call
          main,           \* the main thread: where it is, and its local download
          callback,       \* didFinishDownloadingTo: where, its task, its download
          reloads,        \* reloads posted to the main queue
          cell,           \* the buttons the cell shows
          downloaded,     \* track.downloaded
          files,          \* names of the files under documentsPath
          unseen,         \* history: an entry went that its removal did not know
          hurried         \* history: Downloads resumed before their data came
model   == <<dataTask, resumeData, isDownloading>>
session == <<state, got, handlers>>
view    == <<reloads, cell, downloaded, files>>
noted   == <<unseen, hurried>>
downloadVars == <<active, model, session, main, callback, view, noted>>

Resting      == [at |-> "idle", download |-> None]
NotFinishing == [at |-> "idle", task |-> None, download |-> None]

DownloadInit ==
  /\ active = None
  /\ dataTask = [d \in Task |-> None]
  /\ resumeData = [d \in Task |-> None]
  /\ isDownloading = [d \in Task |-> FALSE]
  /\ state = [k \in Task |-> "unused"]
  /\ got = [k \in Task |-> 0]
  /\ handlers = {}
  /\ main = Resting /\ callback = NotFinishing
  /\ reloads = 0 /\ cell = "download"
  /\ downloaded = FALSE /\ files = {}
  /\ unseen = FALSE /\ hurried = {}

Proceed(l) == main' = [main EXCEPT !.at = l]

\* The task the session creates next, started at an offset.
NewTask == Cardinality({k \in Task : state[k] # "unused"}) + 1
Resume(offset) == /\ state' = [state EXCEPT ![NewTask] = "running"]
                  /\ got' = [got EXCEPT ![NewTask] = offset]
Cancel(k) == state' = [state EXCEPT ![k] = IF @ = "running" THEN "cancelled" ELSE @]

-----------------------------------------------------------------------------
\* startDownload: a Download, and its task is resumed ...
downloadTapped ==
  /\ main.at = "idle" /\ cell = "download" /\ NewTask \in Task
  /\ dataTask' = [dataTask EXCEPT ![NewTask] = NewTask]
  /\ isDownloading' = [isDownloading EXCEPT ![NewTask] = TRUE]
  /\ Resume(0)
  /\ main' = [at |-> "insert", download |-> NewTask]
  /\ UNCHANGED <<active, resumeData, handlers, callback, view, noted>>

\* ... and only then the Download entered.
startDownload_insert ==
  /\ main.at = "insert"
  /\ active' = main.download
  /\ Proceed("reload")
  /\ UNCHANGED <<model, session, callback, view, noted>>

\* The other taps start with a look-up.
LookUp(l) == /\ main' = [at |-> IF active = None THEN "reload" ELSE l, download |-> active]
             /\ UNCHANGED <<active, model, session, callback, view, noted>>

pauseTapped  == main.at = "idle" /\ cell = "pause" /\ LookUp("pause")
resumeTapped == main.at = "idle" /\ cell = "resume" /\ NewTask \in Task /\ LookUp("resume")
cancelTapped == main.at = "idle" /\ cell \in {"pause", "resume"} /\ LookUp("cancel")

\* A task that is over has no resume data to give.
DataOf(k) == IF state[k] = "running" THEN got[k] ELSE None

pauseDownload ==
  /\ main.at = "pause"
  /\ LET d == main.download IN
     IF isDownloading[d]
     THEN /\ Cancel(dataTask[d])
          /\ handlers' = handlers \cup {<<d, DataOf(dataTask[d])>>}
          /\ isDownloading' = [isDownloading EXCEPT ![d] = FALSE]
     ELSE UNCHANGED <<state, handlers, isDownloading>>
  /\ Proceed("reload")
  /\ UNCHANGED <<active, dataTask, resumeData, got, callback, view, noted>>

\* The handler of cancel(byProducingResumeData:), on the session's queue.
resumeDataHandler ==
  /\ callback.at = "idle"
  /\ \E h \in handlers : /\ handlers' = handlers \ {h}
                         /\ resumeData' = [resumeData EXCEPT ![h[1]] = h[2]]
  /\ UNCHANGED <<active, dataTask, isDownloading, state, got, main, callback, view, noted>>

\* Plausible bug: the resume data is not handed to the new task.
Offset_restart(d) == 0
\* No resume data, no offset: the task starts from the URL again.
Offset(d) == resumeData[d]

\* Resume data of the Download is on its way.
Expects(d) == \E h \in handlers : h[1] = d

resumeDownload ==
  /\ main.at = "resume"
  /\ LET d == main.download IN
     /\ Resume(Offset(d))
     /\ dataTask' = [dataTask EXCEPT ![d] = NewTask]
     /\ isDownloading' = [isDownloading EXCEPT ![d] = TRUE]
     /\ hurried' = IF Expects(d) THEN hurried \cup {d} ELSE hurried
  /\ Proceed("reload")
  /\ UNCHANGED <<active, resumeData, handlers, callback, view, unseen>>

\* Plausible bug: the entry is removed, the task keeps running.
Cancelling_keepsTask(d) == UNCHANGED state
Cancelling(d) == Cancel(dataTask[d])

cancelDownload ==
  /\ main.at = "cancel"
  /\ Cancelling(main.download)
  /\ Proceed("remove")
  /\ UNCHANGED <<active, model, got, handlers, callback, view, noted>>

cancelDownload_remove ==
  /\ main.at = "remove"
  /\ active' = None
  /\ Proceed("reload")
  /\ UNCHANGED <<model, session, callback, view, noted>>

\* cellForRowAt: every tap, and every posted reload, looks the Download up ...
cellForRowAt ==
  /\ main.at = "reload"
  /\ main' = [at |-> "configure", download |-> active]
  /\ unseen' = FALSE
  /\ UNCHANGED <<active, model, session, callback, view, hurried>>

\* ... and configures the cell with what it found.
Buttons(d) == IF d # None THEN IF isDownloading[d] THEN "pause" ELSE "resume"
              ELSE IF downloaded THEN "done" ELSE "download"

configure ==
  /\ main.at = "configure"
  /\ cell' = Buttons(main.download)
  /\ main' = Resting
  /\ UNCHANGED <<active, model, session, callback, reloads, downloaded, files, noted>>

reloadRows ==
  /\ main.at = "idle" /\ reloads > 0
  /\ reloads' = reloads - 1
  /\ Proceed("reload")
  /\ UNCHANGED <<active, model, session, callback, cell, downloaded, files, noted>>

-----------------------------------------------------------------------------
\* Data arrives; the last piece was there (the callback is on its way), or the
\* network fails: didCompleteWithError is not implemented, so nobody is told.
DataArrives(k) ==
  /\ state[k] = "running" /\ got[k] < Size
  /\ got' = [got EXCEPT ![k] = @ + 1]
  /\ UNCHANGED <<active, model, state, handlers, main, callback, view, noted>>

TaskEnds(k) ==
  /\ state[k] = "running"
  /\ \/ got[k] = Size /\ state' = [state EXCEPT ![k] = "finished"]
     \/ state' = [state EXCEPT ![k] = "failed"]
  /\ UNCHANGED <<active, model, got, handlers, main, callback, view, noted>>

\* didFinishDownloadingTo, first the look-up ...
didFinish_lookup(k) ==
  /\ callback.at = "idle" /\ state[k] = "finished"
  /\ state' = [state EXCEPT ![k] = "over"]
  /\ callback' = [at |-> "clear", task |-> k, download |-> active]
  /\ UNCHANGED <<active, model, got, handlers, main, view, noted>>

\* Plausible bug: the entry outlives the download.
Cleared_not == active
Cleared == None

\* ... then the removal, of whatever is there by now ...
didFinish_clear ==
  /\ callback.at = "clear"
  /\ active' = Cleared
  /\ callback' = [callback EXCEPT !.at = "copy"]
  /\ unseen' = (unseen \/ (callback.download = None /\ active # None))
  /\ UNCHANGED <<model, session, main, view, hurried>>

\* The destination is named after the temporary file of the task.
LocalFilePath(k) == <<"tmp", k>>
PreviewPath == <<"preview", None>>

\* ... then the copy, which may fail ...
didFinish_copy ==
  /\ callback.at = "copy"
  /\ \E ok \in BOOLEAN :
       /\ files' = IF ok THEN files \cup {LocalFilePath(callback.task)}
                   ELSE files \ {LocalFilePath(callback.task)}
       /\ downloaded' = (downloaded \/ (ok /\ callback.download # None))
  /\ callback' = [callback EXCEPT !.at = "post"]
  /\ UNCHANGED <<active, model, session, main, reloads, cell, noted>>

\* Plausible bug: the row is not reloaded.
Reload_not == reloads
Reload == IF callback.download # None THEN reloads + 1 ELSE reloads

\* ... and the reload of the row of the Download found, posted to the main queue.
didFinish_reload ==
  /\ callback.at = "post"
  /\ reloads' = Reload
  /\ callback' = NotFinishing
  /\ UNCHANGED <<active, model, session, main, cell, downloaded, files, noted>>

DownloadNext ==
  \/ downloadTapped \/ startDownload_insert
  \/ pauseTapped \/ resumeTapped \/ cancelTapped
  \/ pauseDownload \/ resumeDownload \/ cancelDownload \/ cancelDownload_remove
  \/ cellForRowAt \/ configure \/ reloadRows
  \/ resumeDataHandler \/ didFinish_clear \/ didFinish_copy \/ didFinish_reload
  \/ \E k \in Task : DataArrives(k) \/ TaskEnds(k) \/ didFinish_lookup(k)

DownloadSpec == DownloadInit /\ [][DownloadNext]_downloadVars

-----------------------------------------------------------------------------
\* A task that Pause and Cancel reach: that of the Download in the table, or of
\* the one about to be entered.
Reachable(k) == \/ active # None /\ dataTask[active] = k
                \/ main.at = "insert" /\ dataTask[main.download] = k

(* DownloadService "allows cancel, pause, resume download". Whatever the user *)
(* taps, and when, a running task gets out of reach in one way only: the      *)
(* finish of another task of the same URL takes the entry away, before a      *)
(* resume or after it. No tap loses a task.                                   *)
NoTaskLost == [][\A k \in Task :
  state'[k] = "running" /\ ~Reachable(k)' /\ (Reachable(k) \/ state[k] # "running") =>
    \/ callback.at = "clear" /\ callback.task # k
    \/ main.at = "resume" /\ active = None]_downloadVars

\* The comment of TrackCell.configure: "Non-nil Download object means a download
\* is in progress": it is paused, about to be removed, or its task is not over.
InProgress == active # None =>
  \/ ~isDownloading[active] \/ main.at = "remove" \/ callback.at = "clear"
  \/ state[dataTask[active]] \in {"running", "finished"}

(* An entry becomes one of a download that is over in two ways only: the      *)
(* network fails its task, or its task was over before startDownload entered  *)
(* it. No tap, no resume and no finish of an earlier task leaves one behind.  *)
NoEntryLeft == [][InProgress /\ ~InProgress' =>
  \/ main.at = "insert" /\ state[main.download] \in {"over", "failed"}
  \/ state'[dataTask[active]] = "failed"]_downloadVars

(* The table and the tasks fit each other as well as these two ways let them: *)
(* whatever is tapped, no tap loses a task or leaves an entry behind.         *)
TableTruthful == NoTaskLost /\ NoEntryLeft

\* The row fits the table, or a reload is on its way.
RowAnswered == main.at = "idle" =>
  \/ cell = Buttons(active)
  \/ reloads > 0 \/ (callback.at \in {"copy", "post"} /\ callback.download # None)

(* The buttons the user can tap are those of the Download in the table and of *)
(* track.downloaded, or the row is about to be reloaded; unless a finish that *)
(* had found no Download removed one entered since: it reloads nothing.       *)
CellTruthful == RowAnswered \/ unseen

\* The task of a paused Download is replaced; the new one has what it had.
Continues(d) == /\ dataTask[d] # None /\ dataTask'[d] # dataTask[d]
                /\ state[dataTask[d]] = "cancelled"
GoesOn(d)    == got'[dataTask'[d]] = got[dataTask[d]]

(* A resumed Download goes on where its pause stopped it, however often it is *)
(* paused and resumed, as long as the user gives the resume data time to come.*)
ResumeGoesOn == [][\A d \in Task :
  Continues(d) => GoesOn(d) \/ Expects(d) \/ d \in hurried]_downloadVars

\* What the comments of the code promise without these reservations, and what
\* does not hold. Every task that runs can be paused and cancelled,
NoOrphanTask == \A k \in Task : state[k] = "running" => Reachable(k)
\* the entry of a download that has finished goes,
FinishedLeaves == InProgress \/ state[dataTask[active]] = "failed"
\* every resume keeps what was fetched,
ResumeKeepsData == [][\A d \in Task : Continues(d) => GoesOn(d)]_downloadVars
\* and didSelectRowAt will "play the local file, if it's downloaded": playDownload
\* opens the file named after the previewURL.
PlaysWhatItDownloaded == downloaded => PreviewPath \in files
=============================================================================
