------------------------------ MODULE CloudMedia ------------------------------
(***************************************************************************)
(* The recordings of the cloud service.  A camera streams over RTMP to the *)
(* ingest server (scripts/rtmp_ingest_server.py), which writes each burst  *)
(* of media to a file, turns it into a movie when the burst is over and    *)
(* registers it in kv_state.cloudMedia (app/store_domains/cloud.py), where *)
(* the app lists, plays and removes it (app/store_domains/playback.py).    *)
(*                                                                         *)
(* The ingest server is one event loop, and a handler awaits nothing       *)
(* between taking a capture from its session and registering it, so each   *)
(* handler is one step.  The app's list request holds no lock: it is two   *)
(* steps, and it saves what it has read.  (StateStore has the transactions *)
(* of the other calls, which are one step here.)  A capture is named by    *)
(* its start in milliseconds, which is its number here; a file by the      *)
(* second, the camera, the token and the number within its publication.    *)
(***************************************************************************)
EXTENDS Integers, FiniteSets

CONSTANTS
  Connections,  \* RTMP connections
  Cameras,
  CameraOf,     \* whose connection it is; reconnections carry the same token
  Notices,      \* notices that a camera may send of its recordings
  MaxRecords,   \* the 200 records kept
  Window,       \* the 10 minutes in which a notice is taken for a capture's
  IdleTime,     \* MEDIA_IDLE_SECONDS
  MaxCaptures,  \* bound: captures started
  MaxTime,      \* bound: the clock stops there
  MaxSeq,       \* bound: captures of one publication
  MaxUpsets,    \* bound: stops, failures of ffmpeg or of an unlink, list requests
  NoFile

ASSUME MediaAssumption ==
  /\ CameraOf \in [Connections -> Cameras]
  /\ MaxRecords \in Nat \ {0} /\ Window \in Nat /\ IdleTime \in Nat \ {0}
  /\ MaxCaptures \in Nat /\ MaxTime \in Nat /\ MaxSeq \in Nat /\ MaxUpsets \in Nat

VARIABLES
  sessions,  \* of each connection, or NoFile when it is closed
  disk,      \* of each file, the captures with frames in it, or NoFile
  movies,    \* the files of which there is an .mp4 under decode/movies
  media,     \* kv_state.cloudMedia
  notices,   \* the notices in kv_state.messages, with their times
  listing,   \* what a list request has read and will save, or NoFile
  now,
  captures,  \* how many have been started
  upsets,    \* how many there have been
  excused    \* history: captures that were lost in a way the code allows

vars == <<sessions, disk, movies, media, notices, listing, now, captures, upsets, excused>>

Times == 0 .. MaxTime
Captures == 1 .. MaxCaptures
Files == [at : Times, camera : Cameras, seq : 1 .. MaxSeq]

\* What a session's dictionary says of its capture.
Sessions == [flv : Files \cup {NoFile}, capture : 0 .. MaxCaptures, start : Times,
             seq : 0 .. MaxSeq, quiet : 0 .. IdleTime]

\* A stream code names a notice or, without one, the capture's own start.
Codes == Notices \cup Captures
Records == [code : Codes, camera : Cameras, flv : Files, capture : Captures,
            movie : BOOLEAN, updated : Times]

NoticeRows == [id : Notices, camera : Cameras, at : Times]

ASSUME NoFileAssumption ==
  NoFile \notin Files /\ NoFile \notin Sessions /\ \A S \in SUBSET Captures : S # NoFile

Fresh == [flv |-> NoFile, capture |-> 0, start |-> 0, seq |-> 0, quiet |-> 0]
IsOpen(c) == sessions[c] # NoFile
Capturing(c) == IsOpen(c) /\ sessions[c].flv # NoFile

\* Captures that somebody still writes.
Running == {sessions[c].capture : c \in {d \in Connections : Capturing(d)}}

-----------------------------------------------------------------------------
(***************************************************************************)
(* register_cloud_media_capture                                            *)
(***************************************************************************)
Apart(s, t) == IF s > t THEN s - t ELSE t - s

Near(camera, start) == {n \in notices : n.camera = camera /\ Apart(n.at, start) <= Window}

\* The notice whose time is nearest to the start of the capture.
Best(camera, start) ==
  {n \in Near(camera, start) : \A m \in Near(camera, start) : Apart(n.at, start) <= Apart(m.at, start)}

\* The stream codes a capture may get.
CodesFor(camera, start, k) ==
  IF Near(camera, start) = {} THEN {k} ELSE {n.id : n \in Best(camera, start)}

\* Mutant of Replaced: the file is compared before the stream code.
ReplacedByFile(code, flv) ==
  LET same == {r \in media : r.flv = flv}
  IN  IF same # {} THEN same ELSE {r \in media : r.code = code}

\* The record that a new one is written over; each is looked for by its code,
\* then by its files.
Replaced(code, flv) ==
  LET same == {r \in media : r.code = code}
  IN  IF same # {} THEN same ELSE {r \in media : r.flv = flv}

\* Mutant of Oldest: the list is sorted the other way round.
Newest(old) == {r \in old : \A q \in old : r.updated >= q.updated}

\* The list is in the order of updatedAt, the latest first.
Oldest(old) == {r \in old : \A q \in old : r.updated <= q.updated}

\* Mutant of Evicted: the list is saved whole.
AllKept(old) == {{}}

\* The records that make room for a new one.
Evicted(old) ==
  IF Cardinality(old) < MaxRecords THEN {{}} ELSE {{r} : r \in Oldest(old)}

Register(camera, flv, k, start, movie) ==
  \E code \in CodesFor(camera, start, k) :
    LET rec == [code |-> code, camera |-> camera, flv |-> flv, capture |-> k,
                movie |-> movie, updated |-> now]
        old == media \ Replaced(code, flv)
    IN  \E out \in Evicted(old) :
          /\ media' = (old \ out) \cup {rec}
          /\ excused' = excused \cup
               {r.capture : r \in {r \in media : r.code = code \/ r.flv = flv}} \cup
               {r.capture : r \in {r \in out : \A q \in old : r.updated <= q.updated}}

Upset == upsets < MaxUpsets /\ upsets' = upsets + 1

(***************************************************************************)
(* The end of a capture: _finalize_capture.                                *)
(***************************************************************************)

\* The file is gone: "cloud.rtmp.finalize_skipped".
Skip(s) ==
  /\ disk[s.flv] = NoFile
  /\ excused' = excused \cup {s.capture}
  /\ UNCHANGED <<movies, media, upsets>>

\* ffmpeg writes the movie, or fails and may leave part of it.
Finish(camera, s) ==
  /\ disk[s.flv] # NoFile
  /\ \/ /\ movies' = movies \cup {s.flv}
        /\ Register(camera, s.flv, s.capture, s.start, TRUE)
        /\ UNCHANGED upsets
     \/ /\ movies' \in {movies, movies \cup {s.flv}}
        /\ Register(camera, s.flv, s.capture, s.start, FALSE)
        /\ Upset

\* ffmpeg does not come to an end within 180 seconds, or the store is busy:
\* the handler raises, and the writer is no longer in the session.
Raise(s) ==
  /\ disk[s.flv] # NoFile
  /\ excused' = excused \cup {s.capture}
  /\ movies' \in {movies, movies \cup {s.flv}}
  /\ Upset
  /\ UNCHANGED media

(***************************************************************************)
(* The ingest server's handlers.                                           *)
(***************************************************************************)

\* on_nc_connect
Connect(c) ==
  /\ ~IsOpen(c)
  /\ sessions' = [sessions EXCEPT ![c] = Fresh]
  /\ UNCHANGED <<disk, movies, media, notices, listing, now, captures, upsets, excused>>

\* on_ns_publish forgets a writer that is open: nobody closes or registers it.
Publish(c) ==
  /\ IsOpen(c)
  /\ sessions' = [sessions EXCEPT ![c] = Fresh]
  /\ excused' = IF Capturing(c) THEN excused \cup {sessions[c].capture} ELSE excused
  /\ UNCHANGED <<disk, movies, media, notices, listing, now, captures, upsets>>

\* _open_capture; a file of that name is truncated.
Opened(c) ==
  LET n == sessions[c].seq + 1
  IN  [flv |-> [at |-> now, camera |-> CameraOf[c], seq |-> n],
       capture |-> captures + 1, start |-> now, seq |-> n, quiet |-> 0]

\* on_video_message, on_audio_message: the first frame opens a capture.
Media(c) ==
  /\ IsOpen(c)
  /\ \/ /\ Capturing(c)
        /\ sessions' = [sessions EXCEPT ![c].quiet = 0]
        /\ disk' = IF disk[sessions[c].flv] = NoFile THEN disk
                     ELSE [disk EXCEPT ![sessions[c].flv] = @ \cup {sessions[c].capture}]
        /\ UNCHANGED <<captures, excused>>
     \/ /\ ~Capturing(c) /\ captures < MaxCaptures /\ sessions[c].seq < MaxSeq
        /\ sessions' = [sessions EXCEPT ![c] = Opened(c)]
        /\ disk' = [disk EXCEPT ![Opened(c).flv] = {captures + 1}]
        /\ captures' = captures + 1
        /\ excused' = IF disk[Opened(c).flv] = NoFile THEN excused
                        ELSE excused \cup disk[Opened(c).flv]
  /\ UNCHANGED <<movies, media, notices, listing, now, upsets>>

IsIdle(s) == s.quiet >= IdleTime

\* on_unknown_message of a ping: _maybe_finalize_idle_capture.  The sequence
\* goes on.
Ping(c) ==
  /\ Capturing(c) /\ IsIdle(sessions[c])
  /\ \/ /\ Skip(sessions[c]) \/ Finish(CameraOf[c], sessions[c])
        /\ sessions' = [sessions EXCEPT ![c] = [Fresh EXCEPT !.seq = sessions[c].seq]]
     \/ /\ Raise(sessions[c])
        /\ sessions' = [sessions EXCEPT ![c] = NoFile]
  /\ UNCHANGED <<disk, notices, listing, now, captures>>

\* on_stream_closed, cleanup
Close(c) ==
  /\ IsOpen(c)
  /\ sessions' = [sessions EXCEPT ![c] = NoFile]
  /\ \/ /\ Capturing(c)
        /\ Skip(sessions[c]) \/ Finish(CameraOf[c], sessions[c]) \/ Raise(sessions[c])
     \/ /\ ~Capturing(c)
        /\ UNCHANGED <<movies, media, upsets, excused>>
  /\ UNCHANGED <<disk, notices, listing, now, captures>>

\* The ingest server stops: its files stay.
Stop ==
  /\ \E c \in Connections : IsOpen(c)
  /\ sessions' = [c \in Connections |-> NoFile]
  /\ excused' = excused \cup Running
  /\ Upset
  /\ UNCHANGED <<disk, movies, media, notices, listing, now, captures>>

(***************************************************************************)
(* The app's requests.                                                     *)
(***************************************************************************)

\* Mutant of WithMovie: what is on the disk is not looked at.
AsRecorded(r) == r

\* _infer_cloud_media_asset_paths_unlocked finds a movie by its capture's file.
WithMovie(r) == [r EXCEPT !.movie = @ \/ (disk[r.flv] # NoFile /\ r.flv \in movies)]

\* storage_video_list_payload
List ==
  /\ listing = NoFile /\ media # {}
  /\ listing' = [media |-> {WithMovie(r) : r \in media}, notices |-> notices]
  /\ Upset
  /\ UNCHANGED <<sessions, disk, movies, media, notices, now, captures, excused>>

\* The list is saved if anything in it was brought up to date.
Listed ==
  /\ listing # NoFile
  /\ listing' = NoFile
  /\ \/ /\ media' = listing.media /\ notices' = listing.notices
        /\ excused' = excused \cup {r.capture : r \in media \ listing.media}
     \/ UNCHANGED <<media, notices, excused>>
  /\ UNCHANGED <<sessions, disk, movies, now, captures, upsets>>

\* cloud_media_asset_paths, of one record; under the lock.
Assets(r) ==
  /\ WithMovie(r) # r
  /\ media' = (media \ {r}) \cup {WithMovie(r)}
  /\ UNCHANGED <<sessions, disk, movies, notices, listing, now, captures, upsets, excused>>

\* remove_cloud_media; codes are those asked for whose camera the user may see.
\* A file that cannot be unlinked stays, and its record goes all the same.
Remove(codes) ==
  LET gone == {r \in media : r.code \in codes}
      flvs == {f \in {r.flv : r \in gone} : disk[f] # NoFile}
      itsMovies == movies \cap {r.flv : r \in {q \in gone : WithMovie(q).movie}}
  IN  /\ gone # {}
      /\ media' = media \ gone
      /\ \E stuck \in SUBSET flvs, stuckMovies \in SUBSET itsMovies :
           /\ disk' = [f \in Files |-> IF f \in flvs \ stuck THEN NoFile ELSE disk[f]]
           /\ movies' = movies \ (itsMovies \ stuckMovies)
           /\ IF stuck \cup stuckMovies = {} THEN UNCHANGED upsets ELSE Upset
           /\ excused' = excused \cup {r.capture : r \in gone}
                           \cup UNION {disk[f] : f \in flvs \ stuck}
      /\ UNCHANGED <<sessions, notices, listing, now, captures>>

RemoveSome == \E codes \in SUBSET {r.code : r \in media} : Remove(codes)

(***************************************************************************)
(* A recording's notice arrives; the clock.                                *)
(***************************************************************************)
Notice(n, camera) ==
  /\ \A m \in notices : m.id # n
  /\ notices' = notices \cup {[id |-> n, camera |-> camera, at |-> now]}
  /\ UNCHANGED <<sessions, disk, movies, media, listing, now, captures, upsets, excused>>

\* Mutant of Quieter: whatever arrives counts as media.
NeverQuieter(s) == s
Quieter(s) == [s EXCEPT !.quiet = IF @ < IdleTime THEN @ + 1 ELSE @]

Tick ==
  /\ now' = IF now < MaxTime THEN now + 1 ELSE now
  /\ sessions' = [c \in Connections |->
       IF Capturing(c) THEN Quieter(sessions[c]) ELSE sessions[c]]
  /\ UNCHANGED <<disk, movies, media, notices, listing, captures, upsets, excused>>

-----------------------------------------------------------------------------
Init ==
  /\ sessions = [c \in Connections |-> NoFile]
  /\ disk = [f \in Files |-> NoFile]
  /\ movies = {} /\ media = {} /\ notices = {}
  /\ listing = NoFile /\ now = 0 /\ captures = 0 /\ upsets = 0 /\ excused = {}

Next ==
  \/ \E c \in Connections : Connect(c) \/ Publish(c) \/ Media(c) \/ Ping(c) \/ Close(c)
  \/ RemoveSome
  \/ \E n \in Notices, k \in Cameras : Notice(n, k)
  \/ \E r \in media : Assets(r)
  \/ List \/ Listed \/ Stop \/ Tick

\* A connected camera pings the server as long as it lives.
Fairness ==
  /\ WF_vars(Tick)
  /\ \A c \in Connections : WF_vars(Ping(c))

Spec == Init /\ [][Next]_vars /\ Fairness

-----------------------------------------------------------------------------
\* The type invariant; the list keeps to its cap, as it was sorted and cut by
\* the save after a registration and by that of a stale list.
TypeOK ==
  /\ sessions \in [Connections -> Sessions \cup {NoFile}]
  /\ \A f \in Files : disk[f] = NoFile \/ disk[f] \in SUBSET Captures
  /\ movies \subseteq Files /\ media \subseteq Records /\ Cardinality(media) <= MaxRecords
  /\ listing = NoFile \/ (listing.media \subseteq Records /\ listing.notices \subseteq NoticeRows)
  /\ notices \subseteq NoticeRows
  /\ now \in Times /\ captures \in 0 .. MaxCaptures /\ upsets \in 0 .. MaxUpsets
  /\ excused \subseteq Captures

\* No two recordings have one stream code, by which the app lists, plays and
\* removes them: captures that take the same notice's code, captures into the
\* same file and the stale list of a request included.
StreamCodesUnique ==
  \A r, q \in media : r.code = q.code => r = q

\* Every capture that is over is in the library with its frames still in its
\* file, except for the ways of losing one that the code has: the ingest server
\* stops, the camera publishes anew, ffmpeg does not end, its file is gone, the
\* second's file name or the notice goes to another capture, the cap of the
\* list, a removal, or the stale list of a request.
NothingElseIsLost ==
  \A k \in (1 .. captures) \ (Running \cup excused) :
    \E r \in media : r.capture = k /\ disk[r.flv] # NoFile /\ k \in disk[r.flv]

\* Once a recording is removed nothing of it is left to be played or found
\* again, a movie its record did not know of included, unless a file could not
\* be unlinked; and no file goes that no removed recording names.  A recording
\* that stays loses its file if it shares it with a removed one.
RemovalTakesItsFiles ==
  [][RemoveSome =>
       /\ upsets' = upsets =>
            \A r \in media \ media' : disk'[r.flv] = NoFile
                                       /\ (disk[r.flv] # NoFile => r.flv \notin movies')
       /\ \A f \in Files : (\A r \in media \ media' : r.flv # f)
            => disk'[f] = disk[f] /\ (f \in movies => f \in movies')]_vars

\* A burst ends: a capture gets media again and again, or it is finished, and
\* the recording can be watched while its camera stays connected.
BurstsEnd ==
  \A c \in Connections : []<>~Capturing(c) \/ []<><<Media(c)>>_vars

=============================================================================
