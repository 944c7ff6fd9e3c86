--------------------------- MODULE CloudMediaProofs ---------------------------
(***************************************************************************)
(* Theorems about CloudMedia, for any connections, cameras, notices and    *)
(* bounds.                                                                 *)
(***************************************************************************)
EXTENDS CloudMedia, FunctionTheorems, FiniteSetTheorems, TLAPS

(***************************************************************************)
(* The invariant, in parts.                                                *)
(***************************************************************************)
Unique(recs) == \A r, q \in recs : r.code = q.code => r = q

\* A list that may be saved.
Library(recs) ==
  /\ recs \subseteq Records /\ IsFiniteSet(recs) /\ Cardinality(recs) <= MaxRecords
  /\ Unique(recs)

Bounded == now \in Times /\ captures \in 0 .. MaxCaptures /\ upsets \in 0 .. MaxUpsets

FilesOK == disk \in [Files -> (SUBSET Captures) \cup {NoFile}] /\ movies \subseteq Files

\* What a list request will save could be saved, too.
ListingOK ==
  listing # NoFile => Library(listing.media) /\ listing.notices \subseteq NoticeRows

\* The frames of k are in the file f, or k is excused.
FramesIn(k, f) == k \in excused \/ (disk[f] # NoFile /\ k \in disk[f])

\* A capture that is under way has been started, and its frames are in its file.
SessionsOK ==
  /\ sessions \in [Connections -> Sessions \cup {NoFile}]
  /\ \A c \in Connections :
       Capturing(c) => /\ sessions[c].capture \in 1 .. captures
                       /\ FramesIn(sessions[c].capture, sessions[c].flv)

\* The capture k is in the library recs.
Watchable(k, recs) == \E r \in recs : r.capture = k /\ disk[r.flv] # NoFile /\ k \in disk[r.flv]

IInv ==
  /\ Bounded /\ FilesOK /\ notices \subseteq NoticeRows /\ excused \subseteq Captures
  /\ Library(media) /\ ListingOK /\ SessionsOK
  /\ \A k \in 1 .. captures : k \in Running \/ k \in excused \/ Watchable(k, media)

\* The invariant gives the three that are checked.
LEMMA InvariantImplies == IInv => TypeOK /\ StreamCodesUnique /\ NothingElseIsLost
  <1> SUFFICES ASSUME IInv PROVE TypeOK /\ StreamCodesUnique /\ NothingElseIsLost
    OBVIOUS
  <1>1. TypeOK
    BY DEF IInv, Bounded, FilesOK, ListingOK, SessionsOK, Library, TypeOK
  <1>2. StreamCodesUnique
    BY DEF IInv, Library, Unique, StreamCodesUnique
  <1>3. NothingElseIsLost
    BY DEF IInv, Watchable, NothingElseIsLost
  <1> QED BY <1>1, <1>2, <1>3

-----------------------------------------------------------------------------
(***************************************************************************)
(* Lists.                                                                  *)
(***************************************************************************)
\* A part of a list may be saved.
LEMMA PartIsLibrary ==
  ASSUME NEW recs, Library(recs), NEW part \in SUBSET recs
  PROVE  Library(part)
  <1>1. IsFiniteSet(part) /\ Cardinality(part) <= Cardinality(recs)
    BY FS_Subset DEF Library
  <1>2. Cardinality(part) \in Nat /\ Cardinality(recs) \in Nat
    BY <1>1, FS_CardinalityType DEF Library
  <1>3. Cardinality(part) <= MaxRecords
    BY <1>1, <1>2, MediaAssumption DEF Library
  <1> QED BY <1>1, <1>3 DEF Library, Unique

\* What WithMovie changes is whether there is a movie.
LEMMA WithMovieKeeps ==
  ASSUME FilesOK, NEW r \in Records
  PROVE  /\ WithMovie(r) \in Records
         /\ WithMovie(r).code = r.code /\ WithMovie(r).flv = r.flv
         /\ WithMovie(r).capture = r.capture
  BY DEF WithMovie, Records

\* A list that was brought up to date may be saved.
LEMMA UpdatedIsLibrary ==
  ASSUME FilesOK, NEW recs, Library(recs)
  PROVE  Library({WithMovie(r) : r \in recs})
  <1> DEFINE new == {WithMovie(r) : r \in recs}
             f == [r \in recs |-> WithMovie(r)]
  <1>1. new \subseteq Records
    BY WithMovieKeeps DEF Library
  <1>2. Unique(new)
    BY WithMovieKeeps DEF Library, Unique
  <1>3. f \in Surjection(recs, new)
    BY DEF Surjection
  <1>4. IsFiniteSet(new) /\ Cardinality(new) <= Cardinality(recs)
    BY <1>3, FS_Surjection DEF Library
  <1>5. Cardinality(new) \in Nat /\ Cardinality(recs) \in Nat
    BY <1>4, FS_CardinalityType DEF Library
  <1>6. Cardinality(new) <= MaxRecords
    BY <1>4, <1>5, MediaAssumption DEF Library
  <1> QED BY <1>1, <1>2, <1>4, <1>6 DEF Library

\* What makes room is among the records, and leaves room for one.
LEMMA EvictionMakesRoom ==
  ASSUME NEW old, Library(old), NEW out \in Evicted(old)
  PROVE  /\ out \subseteq old /\ \A r \in out, q \in old : r.updated <= q.updated
         /\ IsFiniteSet(old \ out) /\ Cardinality(old \ out) < MaxRecords
  <1>1. Cardinality(old) \in Nat /\ IsFiniteSet(old) /\ Cardinality(old) <= MaxRecords
    BY FS_CardinalityType DEF Library
  <1>2. CASE Cardinality(old) < MaxRecords
    <2>1. out = {}
      BY <1>2 DEF Evicted
    <2>2. old \ out = old
      BY <2>1
    <2> QED BY <1>1, <1>2, <2>1, <2>2
  <1>3. CASE ~(Cardinality(old) < MaxRecords)
    <2>1. PICK r \in Oldest(old) : out = {r}
      BY <1>3 DEF Evicted
    <2>2. r \in old /\ \A q \in old : r.updated <= q.updated
      BY <2>1 DEF Oldest
    <2>3. IsFiniteSet(old \ {r}) /\ Cardinality(old \ {r}) = Cardinality(old) - 1
      BY <1>1, <2>2, FS_RemoveElement
    <2> QED BY <1>1, <2>1, <2>2, <2>3, MediaAssumption
  <1> QED BY <1>2, <1>3

\* A registration: the list can be saved and holds the capture, and who is no
\* longer in it is excused.
LEMMA RegistrationFacts ==
  ASSUME IInv, NEW camera \in Cameras, NEW flv \in Files, NEW k \in Captures,
         NEW start \in Times, NEW movie \in BOOLEAN, Register(camera, flv, k, start, movie)
  PROVE  /\ Library(media')
         /\ excused \subseteq excused' /\ excused' \subseteq Captures
         /\ \E r \in media' : r.capture = k /\ r.flv = flv
         /\ \A r \in media : r \in media' \/ r.capture \in excused'
  <1> DEFINE Rec(code) == [code |-> code, camera |-> camera, flv |-> flv, capture |-> k,
                           movie |-> movie, updated |-> now]
             Old(code) == media \ Replaced(code, flv)
  <1> DEFINE Made(code, out) ==
        /\ media' = (Old(code) \ out) \cup {Rec(code)}
        /\ excused' = excused \cup
             {r.capture : r \in {r \in media : r.code = code \/ r.flv = flv}} \cup
             {r.capture : r \in {r \in out : \A q \in Old(code) : r.updated <= q.updated}}
  <1>0. PICK code \in CodesFor(camera, start, k) : \E out \in Evicted(Old(code)) : Made(code, out)
    BY DEF Register
  <1>1. PICK out \in Evicted(Old(code)) : Made(code, out)
    BY <1>0
  <1>2. code \in Codes
    BY DEF IInv, CodesFor, Best, Near, Codes, NoticeRows
  <1>3. Rec(code) \in Records /\ Rec(code).code = code /\ Rec(code).capture = k /\ Rec(code).flv = flv
    BY <1>2 DEF Records, IInv, Bounded
  <1>4. Library(Old(code))
    BY PartIsLibrary DEF IInv
  <1>5. /\ out \subseteq Old(code) /\ \A r \in out, q \in Old(code) : r.updated <= q.updated
        /\ IsFiniteSet(Old(code) \ out) /\ Cardinality(Old(code) \ out) < MaxRecords
    BY <1>4, EvictionMakesRoom
  <1>6. \A r \in Old(code) : r.code # code
    BY DEF Replaced
  <1>7. \A r \in Replaced(code, flv) : r.code = code \/ r.flv = flv
    BY DEF Replaced
  <1> DEFINE stay == Old(code) \ out
  <1>8. Library(media')
    <2>1. media' \subseteq Records
      BY <1>1, <1>3 DEF IInv, Library
    <2>2. IsFiniteSet(media')
      <3>1. IsFiniteSet(stay \cup {Rec(code)})
        <4> HIDE DEF stay, Rec
        <4> QED BY <1>5, FS_AddElement DEF stay
      <3> QED BY <1>1, <3>1
    <2>3. Cardinality(media') <= Cardinality(stay) + 1
      <3>1. Cardinality(stay) \in Nat
        BY <1>5, FS_CardinalityType
      <3>2. Cardinality(stay \cup {Rec(code)}) = IF Rec(code) \in stay THEN Cardinality(stay)
                                                 ELSE Cardinality(stay) + 1
        <4> HIDE DEF stay, Rec
        <4> QED BY <1>5, FS_AddElement DEF stay
      <3> QED BY <1>1, <3>1, <3>2
    <2>4. Cardinality(media') <= MaxRecords
      <3>1. Cardinality(stay) \in Nat /\ Cardinality(media') \in Nat
        BY <1>5, <2>2, FS_CardinalityType
      <3> QED BY <1>5, <2>3, <3>1, MediaAssumption
    <2>5. Unique(media')
      <3>1. Unique(stay) /\ \A r \in stay : r.code # code
        BY <1>4, <1>6 DEF Library, Unique
      <3> HIDE DEF stay, Rec
      <3> QED BY <1>1, <1>3, <3>1 DEF Unique, stay
    <2> QED BY <2>1, <2>2, <2>4, <2>5 DEF Library
  <1>9. excused \subseteq excused' /\ excused' \subseteq Captures
    <2>1. \A r \in media : r.capture \in Captures
      BY DEF IInv, Library, Records
    <2>2. \A r \in out : r.capture \in Captures
      BY <1>5, <2>1
    <2> QED BY <1>1, <2>1, <2>2 DEF IInv
  <1>10. \A r \in media : r \in media' \/ r.capture \in excused'
    <2> SUFFICES ASSUME NEW r \in media PROVE r \in media' \/ r.capture \in excused'
      OBVIOUS
    <2>1. CASE r \in Replaced(code, flv)
      BY <1>1, <1>7, <2>1
    <2>2. CASE r \in out
      BY <1>1, <1>5, <2>2
    <2> QED BY <1>1, <2>1, <2>2
  <1>11. \E r \in media' : r.capture = k /\ r.flv = flv
    BY <1>1, <1>3
  <1> QED BY <1>8, <1>9, <1>10, <1>11

-----------------------------------------------------------------------------
(***************************************************************************)
(* What a step must do to keep the invariant.                              *)
(***************************************************************************)
\* No frames get lost but those of excused captures.
FramesStay ==
  \A f \in Files : disk[f] # NoFile =>
    \A k \in disk[f] : k \in excused' \/ (disk'[f] # NoFile /\ k \in disk'[f])

\* No capture leaves the list but an excused one.
RecordsStay ==
  \A r \in media : r.capture \in excused' \/ \E q \in media' : q.capture = r.capture /\ q.flv = r.flv

\* A connection closes, goes on with its capture, or begins without one.
SessionsGoOn ==
  /\ sessions' \in [Connections -> Sessions \cup {NoFile}]
  /\ \A c \in Connections : Capturing(c)' =>
       /\ Capturing(c)
       /\ sessions'[c].capture = sessions[c].capture /\ sessions'[c].flv = sessions[c].flv

\* A capture that is no longer under way is excused or in the library.
EndedAreKept ==
  \A k \in Running : k \in Running' \/ k \in excused' \/ Watchable(k, media)'

\* What a session says while it captures.
LEMMA CapturingFacts ==
  ASSUME IInv, NEW c \in Connections, Capturing(c)
  PROVE  /\ sessions[c] \in Sessions /\ sessions[c].flv \in Files
         /\ sessions[c].capture \in Captures /\ sessions[c].capture \in 1 .. captures
         /\ sessions[c].capture \in Running
         /\ FramesIn(sessions[c].capture, sessions[c].flv)
  <1>1. sessions[c] \in Sessions
    BY DEF IInv, SessionsOK, Capturing, IsOpen
  <1>2. sessions[c].flv \in Files
    BY <1>1 DEF Sessions, Capturing
  <1>3. sessions[c].capture \in 1 .. captures /\ FramesIn(sessions[c].capture, sessions[c].flv)
    BY DEF IInv, SessionsOK
  <1>4. sessions[c].capture \in Captures
    BY <1>3, MediaAssumption DEF IInv, Bounded, Captures
  <1> QED BY <1>1, <1>2, <1>3, <1>4 DEF Running

\* No capture is lost where its frames and its record stay.
LEMMA WatchableStays ==
  ASSUME IInv, FramesStay, RecordsStay, NEW k, Watchable(k, media)
  PROVE  k \in excused' \/ Watchable(k, media)'
  <1>1. PICK r \in media : r.capture = k /\ disk[r.flv] # NoFile /\ k \in disk[r.flv]
    BY DEF Watchable
  <1>2. r.flv \in Files
    BY DEF IInv, Library, Records
  <1>3. CASE k \in excused'
    BY <1>3
  <1>4. CASE k \notin excused'
    <2>1. disk'[r.flv] # NoFile /\ k \in disk'[r.flv]
      BY <1>1, <1>2, <1>4 DEF FramesStay
    <2>2. PICK q \in media' : q.capture = k /\ q.flv = r.flv
      BY <1>1, <1>4 DEF RecordsStay
    <2> QED BY <2>1, <2>2 DEF Watchable
  <1> QED BY <1>3, <1>4

\* Steps in which no capture begins.
LEMMA StepKeepsInvariant ==
  ASSUME IInv, Bounded', captures' = captures, FilesOK', notices' \subseteq NoticeRows,
         excused \subseteq excused', excused' \subseteq Captures,
         Library(media'), ListingOK',
         FramesStay, RecordsStay, SessionsGoOn, EndedAreKept
  PROVE  IInv'
  <1>1. SessionsOK'
    <2> SUFFICES ASSUME NEW c \in Connections, Capturing(c)'
                 PROVE  (/\ sessions[c].capture \in 1 .. captures
                         /\ FramesIn(sessions[c].capture, sessions[c].flv))'
      BY DEF SessionsOK, SessionsGoOn
    <2>1. /\ Capturing(c)
          /\ sessions'[c].capture = sessions[c].capture /\ sessions'[c].flv = sessions[c].flv
      BY DEF SessionsGoOn
    <2>2. /\ sessions[c].flv \in Files /\ sessions[c].capture \in 1 .. captures
          /\ FramesIn(sessions[c].capture, sessions[c].flv)
      BY <2>1, CapturingFacts
    <2> DEFINE k == sessions[c].capture
               f == sessions[c].flv
    <2>3. k \in excused' \/ (disk'[f] # NoFile /\ k \in disk'[f])
      BY <2>2 DEF FramesIn, FramesStay
    <2>4. k \in 1 .. captures'
      BY <2>2
    <2> QED BY <2>1, <2>3, <2>4 DEF FramesIn
  <1>2. \A k \in 1 .. captures' : k \in Running' \/ k \in excused' \/ Watchable(k, media)'
    <2> SUFFICES ASSUME NEW k \in 1 .. captures
                 PROVE  k \in Running' \/ k \in excused' \/ Watchable(k, media)'
      OBVIOUS
    <2>1. CASE k \in Running
      BY <2>1 DEF EndedAreKept
    <2>2. CASE k \in excused
      BY <2>2
    <2>3. CASE Watchable(k, media)
      BY <2>3, WatchableStays
    <2> QED BY <2>1, <2>2, <2>3 DEF IInv
  <1> QED BY <1>1, <1>2 DEF IInv

-----------------------------------------------------------------------------
(***************************************************************************)
(* The steps, one lemma each.                                              *)
(***************************************************************************)
\* No connection but c is changed, and c does not go on with a capture.
CaptureEnds(c) ==
  /\ sessions' \in [Connections -> Sessions \cup {NoFile}]
  /\ \A d \in Connections \ {c} : sessions'[d] = sessions[d]
  /\ ~Capturing(c)'

\* A new session, and one whose capture is over, say nothing of a capture.
LEMMA FreshFacts ==
  /\ Fresh \in Sessions /\ Fresh.flv = NoFile
  /\ \A n \in 0 .. MaxSeq : /\ [Fresh EXCEPT !.seq = n] \in Sessions
                            /\ [Fresh EXCEPT !.seq = n].flv = NoFile
  BY MediaAssumption DEF Fresh, Sessions, Times

\* The others go on, and so does what they write.
LEMMA CaptureEndsFacts ==
  ASSUME IInv, NEW c \in Connections, CaptureEnds(c)
  PROVE  /\ SessionsGoOn
         /\ \A k \in Running : \/ k \in Running'
                               \/ Capturing(c) /\ k = sessions[c].capture
  <1>1. \A d \in Connections \ {c} :
          /\ Capturing(d)' <=> Capturing(d)
          /\ sessions'[d].capture = sessions[d].capture /\ sessions'[d].flv = sessions[d].flv
    BY DEF CaptureEnds, Capturing, IsOpen
  <1>2. SessionsGoOn
    BY <1>1 DEF SessionsGoOn, CaptureEnds
  <1>3. ASSUME NEW k \in Running
        PROVE  k \in Running' \/ (Capturing(c) /\ k = sessions[c].capture)
    <2>1. PICK d \in Connections : Capturing(d) /\ k = sessions[d].capture
      BY DEF Running
    <2>2. CASE d = c
      BY <2>1, <2>2
    <2>3. CASE d # c
      BY <1>1, <2>1, <2>3 DEF Running
    <2> QED BY <2>2, <2>3
  <1> QED BY <1>2, <1>3

\* The end of a capture leaves it in the library or excused.
LEMMA FinalizeFacts ==
  ASSUME IInv, NEW c \in Connections, Capturing(c), disk' = disk,
         \/ Skip(sessions[c]) \/ Finish(CameraOf[c], sessions[c]) \/ Raise(sessions[c])
  PROVE  /\ Library(media') /\ excused \subseteq excused' /\ excused' \subseteq Captures
         /\ movies' \subseteq Files /\ upsets' \in 0 .. MaxUpsets
         /\ RecordsStay
         /\ \A k \in Captures :
              k = sessions[c].capture => k \in excused' \/ Watchable(k, media)'
  <1> DEFINE s == sessions[c]
             k == sessions[c].capture
             f == sessions[c].flv
  <1>1. f \in Files /\ k \in Captures /\ FramesIn(k, f) /\ s \in Sessions
    BY CapturingFacts
  <1>2. Library(media) /\ excused \subseteq Captures /\ movies \subseteq Files
        /\ upsets \in 0 .. MaxUpsets
    BY DEF IInv, FilesOK, Bounded
  <1>3. Upset => upsets' \in 0 .. MaxUpsets
    BY <1>2, MediaAssumption DEF Upset
  <1>4. CASE Skip(s) \/ Raise(s)
    <2>1. media' = media /\ excused' = excused \cup {k}
      BY <1>4 DEF Skip, Raise
    <2>2. movies' \subseteq Files /\ upsets' \in 0 .. MaxUpsets
      BY <1>1, <1>2, <1>3, <1>4 DEF Skip, Raise
    <2> QED BY <1>1, <1>2, <2>1, <2>2 DEF RecordsStay
  <1>5. CASE Finish(CameraOf[c], s)
    <2>1. PICK movie \in BOOLEAN : Register(CameraOf[c], f, k, s.start, movie)
      BY <1>5 DEF Finish
    <2>2. CameraOf[c] \in Cameras /\ s.start \in Times
      BY <1>1, MediaAssumption DEF Sessions
    <2>3. /\ Library(media') /\ excused \subseteq excused' /\ excused' \subseteq Captures
          /\ \E r \in media' : r.capture = k /\ r.flv = f
          /\ \A r \in media : r \in media' \/ r.capture \in excused'
      <3> HIDE DEF s, k, f
      <3> QED BY <1>1, <2>1, <2>2, RegistrationFacts
    <2>4. movies' \subseteq Files /\ upsets' \in 0 .. MaxUpsets
      BY <1>1, <1>2, <1>3, <1>5 DEF Finish
    <2>5. RecordsStay
      BY <2>3 DEF RecordsStay
    <2>6. ASSUME NEW j \in Captures, j = k
          PROVE  j \in excused' \/ Watchable(j, media)'
      <3>1. CASE j \in excused
        BY <2>3, <3>1
      <3>2. CASE j \notin excused
        <4>1. disk'[f] # NoFile /\ j \in disk'[f]
          BY <1>1, <2>6, <3>2 DEF FramesIn
        <4>2. PICK r \in media' : r.capture = j /\ r.flv = f
          BY <2>3, <2>6
        <4> QED BY <4>1, <4>2 DEF Watchable
      <3> QED BY <3>1, <3>2
    <2> QED BY <2>3, <2>4, <2>5, <2>6
  <1> QED BY <1>4, <1>5

\* A step that only ends the capture of c, or forgets it.
LEMMA EndKeepsInvariant ==
  ASSUME IInv, NEW c \in Connections, CaptureEnds(c),
         UNCHANGED <<disk, notices, listing, now, captures>>,
         \/ /\ Capturing(c)
            /\ Skip(sessions[c]) \/ Finish(CameraOf[c], sessions[c]) \/ Raise(sessions[c])
         \/ /\ Capturing(c) /\ excused' = excused \cup {sessions[c].capture}
            /\ UNCHANGED <<movies, media, upsets>>
         \/ ~Capturing(c) /\ UNCHANGED <<movies, media, upsets, excused>>
  PROVE  IInv'
  <1>1. SessionsGoOn /\ \A k \in Running : k \in Running' \/ (Capturing(c) /\ k = sessions[c].capture)
    BY CaptureEndsFacts
  <1>2. /\ Library(media') /\ excused \subseteq excused' /\ excused' \subseteq Captures
        /\ movies' \subseteq Files /\ upsets' \in 0 .. MaxUpsets /\ RecordsStay
        /\ Capturing(c) => \A k \in Captures :
             k = sessions[c].capture => k \in excused' \/ Watchable(k, media)'
    <2>1. CASE Capturing(c) /\ (\/ Skip(sessions[c]) \/ Finish(CameraOf[c], sessions[c])
                                \/ Raise(sessions[c]))
      BY <2>1, FinalizeFacts
    <2>2. CASE /\ Capturing(c) /\ excused' = excused \cup {sessions[c].capture}
               /\ UNCHANGED <<movies, media, upsets>>
      BY <2>2, CapturingFacts DEF IInv, FilesOK, Bounded, RecordsStay
    <2>3. CASE ~Capturing(c) /\ UNCHANGED <<movies, media, upsets, excused>>
      BY <2>3 DEF IInv, FilesOK, Bounded, RecordsStay
    <2> QED BY <2>1, <2>2, <2>3
  <1>3. Bounded' /\ FilesOK' /\ notices' \subseteq NoticeRows /\ ListingOK'
    BY <1>2 DEF IInv, Bounded, FilesOK, ListingOK
  <1>4. FramesStay
    BY <1>2 DEF FramesStay
  <1>5. EndedAreKept
    BY <1>1, <1>2, CapturingFacts DEF EndedAreKept
  <1> QED BY <1>1, <1>2, <1>3, <1>4, <1>5, StepKeepsInvariant

\* on_nc_connect
LEMMA ConnectKeeps == ASSUME IInv, NEW c \in Connections, Connect(c) PROVE IInv'
  <1>1. CaptureEnds(c) /\ ~Capturing(c)
    BY FreshFacts DEF Connect, CaptureEnds, Capturing, IsOpen, IInv, SessionsOK
  <1> QED BY <1>1, EndKeepsInvariant DEF Connect

\* on_ns_publish
LEMMA PublishKeeps == ASSUME IInv, NEW c \in Connections, Publish(c) PROVE IInv'
  <1>1. CaptureEnds(c)
    BY FreshFacts DEF Publish, CaptureEnds, Capturing, IsOpen, IInv, SessionsOK
  <1> QED BY <1>1, EndKeepsInvariant DEF Publish

\* A ping that ends a capture.
LEMMA PingKeeps == ASSUME IInv, NEW c \in Connections, Ping(c) PROVE IInv'
  <1>1. sessions[c] \in Sessions
    BY CapturingFacts DEF Ping
  <1>2. sessions[c].seq \in 0 .. MaxSeq
    BY <1>1 DEF Sessions
  <1>3. CaptureEnds(c)
    BY <1>2, FreshFacts DEF Ping, CaptureEnds, Capturing, IsOpen, IInv, SessionsOK
  <1> QED BY <1>3, EndKeepsInvariant DEF Ping

\* on_stream_closed, cleanup
LEMMA CloseKeeps == ASSUME IInv, NEW c \in Connections, Close(c) PROVE IInv'
  <1>1. CaptureEnds(c)
    BY DEF Close, CaptureEnds, Capturing, IsOpen, IInv, SessionsOK
  <1> QED BY <1>1, EndKeepsInvariant DEF Close

\* The ingest server stops.
LEMMA StopKeeps == ASSUME IInv, Stop PROVE IInv'
  <1>1. Running \subseteq Captures
    BY CapturingFacts DEF Running
  <1>2. SessionsGoOn /\ EndedAreKept
    BY DEF Stop, SessionsGoOn, EndedAreKept, Capturing, IsOpen
  <1>3. Bounded'
    BY MediaAssumption DEF Stop, IInv, Bounded, Upset
  <1>4. FilesOK' /\ ListingOK' /\ notices' \subseteq NoticeRows /\ Library(media')
        /\ excused \subseteq excused' /\ excused' \subseteq Captures /\ captures' = captures
    BY <1>1 DEF Stop, IInv, FilesOK, ListingOK
  <1>5. FramesStay /\ RecordsStay
    BY DEF Stop, FramesStay, RecordsStay
  <1> QED BY <1>2, <1>3, <1>4, <1>5, StepKeepsInvariant

\* Sessions that go on as they were.
LEMMA AllGoOn ==
  ASSUME sessions' \in [Connections -> Sessions \cup {NoFile}],
         \A c \in Connections : /\ Capturing(c)' <=> Capturing(c)
                                /\ Capturing(c) =>
                                     /\ sessions'[c].capture = sessions[c].capture
                                     /\ sessions'[c].flv = sessions[c].flv
  PROVE  SessionsGoOn /\ Running' = Running
  BY DEF SessionsGoOn, Running

\* The clock.
LEMMA TickKeeps == ASSUME IInv, Tick PROVE IInv'
  <1>1. ASSUME NEW c \in Connections, Capturing(c)
        PROVE  /\ Quieter(sessions[c]) \in Sessions
               /\ Quieter(sessions[c]).flv = sessions[c].flv
               /\ Quieter(sessions[c]).capture = sessions[c].capture
    <2>1. sessions[c] \in Sessions
      BY <1>1, CapturingFacts
    <2>2. Quieter(sessions[c]) \in Sessions
      BY <2>1, MediaAssumption DEF Quieter, Sessions
    <2> QED BY <2>1, <2>2 DEF Quieter, Sessions
  <1>2. sessions' \in [Connections -> Sessions \cup {NoFile}]
    BY <1>1 DEF Tick, IInv, SessionsOK
  <1>3. \A c \in Connections : /\ Capturing(c)' <=> Capturing(c)
                               /\ Capturing(c) =>
                                    /\ sessions'[c].capture = sessions[c].capture
                                    /\ sessions'[c].flv = sessions[c].flv
    BY <1>1, NoFileAssumption DEF Tick, Capturing, IsOpen
  <1>4. SessionsGoOn /\ Running' = Running
    BY <1>2, <1>3, AllGoOn
  <1>5. Bounded'
    BY MediaAssumption DEF Tick, IInv, Bounded, Times
  <1>6. FilesOK' /\ ListingOK' /\ notices' \subseteq NoticeRows /\ Library(media')
        /\ excused \subseteq excused' /\ excused' \subseteq Captures /\ captures' = captures
    BY DEF Tick, IInv, FilesOK, ListingOK
  <1>7. FramesStay /\ RecordsStay
    BY DEF Tick, FramesStay, RecordsStay
  <1>8. EndedAreKept
    BY <1>4 DEF EndedAreKept
  <1> QED BY <1>4, <1>5, <1>6, <1>7, <1>8, StepKeepsInvariant

\* Steps of the app, by which no capture begins, goes on or ends.
LEMMA RequestKeeps ==
  ASSUME IInv, UNCHANGED <<sessions, now, captures>>, upsets' \in 0 .. MaxUpsets,
         FilesOK', notices' \subseteq NoticeRows, excused \subseteq excused',
         excused' \subseteq Captures, Library(media'), ListingOK', FramesStay, RecordsStay
  PROVE  IInv'
  <1>1. \A c \in Connections : Capturing(c)' <=> Capturing(c)
    BY DEF Capturing, IsOpen
  <1>2. SessionsGoOn /\ Running' = Running
    BY <1>1, AllGoOn DEF IInv, SessionsOK
  <1>3. Bounded'
    BY DEF IInv, Bounded
  <1>4. EndedAreKept
    BY <1>2 DEF EndedAreKept
  <1> QED BY <1>2, <1>3, <1>4, StepKeepsInvariant

\* A recording's notice arrives.
LEMMA NoticeKeeps ==
  ASSUME IInv, NEW n \in Notices, NEW camera \in Cameras, Notice(n, camera) PROVE IInv'
  <1>1. [id |-> n, camera |-> camera, at |-> now] \in NoticeRows
    BY DEF IInv, Bounded, NoticeRows
  <1>2. notices' \subseteq NoticeRows /\ FilesOK' /\ ListingOK' /\ upsets' \in 0 .. MaxUpsets
    BY <1>1 DEF Notice, IInv, FilesOK, ListingOK, Bounded
  <1>3. FramesStay /\ RecordsStay
    BY DEF Notice, FramesStay, RecordsStay
  <1> QED BY <1>2, <1>3, RequestKeeps DEF Notice, IInv

\* A list request reads.
LEMMA ListKeeps == ASSUME IInv, List PROVE IInv'
  <1>1. Library({WithMovie(r) : r \in media})
    BY UpdatedIsLibrary DEF IInv
  <1>2. ListingOK'
    BY <1>1 DEF List, ListingOK, IInv
  <1>3. upsets' \in 0 .. MaxUpsets
    BY MediaAssumption DEF List, IInv, Bounded, Upset
  <1>4. FramesStay /\ RecordsStay /\ FilesOK'
    BY DEF List, FramesStay, RecordsStay, IInv, FilesOK
  <1> QED BY <1>2, <1>3, <1>4, RequestKeeps DEF List, IInv

\* A list request saves.
LEMMA ListedKeeps == ASSUME IInv, Listed PROVE IInv'
  <1>1. Library(media') /\ notices' \subseteq NoticeRows
    BY DEF Listed, IInv, ListingOK
  <1>2. \A r \in media : r.capture \in Captures
    BY DEF IInv, Library, Records
  <1>3. excused \subseteq excused' /\ excused' \subseteq Captures
    BY <1>2 DEF Listed, IInv
  <1>4. FramesStay /\ FilesOK' /\ ListingOK' /\ upsets' \in 0 .. MaxUpsets
    BY DEF Listed, FramesStay, IInv, FilesOK, ListingOK, Bounded
  <1>5. RecordsStay
    BY DEF Listed, RecordsStay
  <1> QED BY <1>1, <1>3, <1>4, <1>5, RequestKeeps DEF Listed

\* A record is brought up to date.
LEMMA AssetsKeeps == ASSUME IInv, NEW r \in media, Assets(r) PROVE IInv'
  <1>1. r \in Records /\ FilesOK /\ Library(media)
    BY DEF IInv, Library
  <1>2. /\ WithMovie(r) \in Records /\ WithMovie(r).code = r.code
        /\ WithMovie(r).flv = r.flv /\ WithMovie(r).capture = r.capture
    BY <1>1, WithMovieKeeps
  <1> DEFINE rest == media \ {r}
             new == WithMovie(r)
  <1>3. IsFiniteSet(rest) /\ Cardinality(rest) = Cardinality(media) - 1
    BY <1>1, FS_RemoveElement DEF Library
  <1>4. /\ IsFiniteSet(rest \cup {new})
        /\ Cardinality(rest \cup {new}) = IF new \in rest THEN Cardinality(rest)
                                          ELSE Cardinality(rest) + 1
    <2> HIDE DEF rest, new
    <2> QED BY <1>3, FS_AddElement
  <1>5. Cardinality(rest) \in Nat /\ Cardinality(media) \in Nat
    BY <1>1, <1>3, FS_CardinalityType DEF Library
  <1>6. Cardinality(rest \cup {new}) <= MaxRecords
    BY <1>1, <1>3, <1>4, <1>5, MediaAssumption DEF Library
  <1>7. Unique(rest \cup {new})
    <2>1. \A q \in rest : q.code # new.code
      BY <1>1, <1>2 DEF Library, Unique
    <2> HIDE DEF new
    <2> QED BY <1>1, <2>1 DEF Library, Unique
  <1>8. Library(media')
    BY <1>1, <1>2, <1>4, <1>6, <1>7 DEF Assets, Library
  <1>9. FramesStay /\ FilesOK' /\ ListingOK' /\ upsets' \in 0 .. MaxUpsets
    BY DEF Assets, FramesStay, IInv, FilesOK, ListingOK, Bounded
  <1>10. RecordsStay
    BY <1>2 DEF Assets, RecordsStay
  <1> QED BY <1>8, <1>9, <1>10, RequestKeeps DEF Assets, IInv

\* The records a removal takes, and the files and movies it tries to unlink.
Gone(codes) == {r \in media : r.code \in codes}
Unlinked(codes) == {f \in {r.flv : r \in Gone(codes)} : disk[f] # NoFile}
MoviesUnlinked(codes) ==
  movies \cap {r.flv : r \in {q \in Gone(codes) : WithMovie(q).movie}}

\* A removal, but for what is stuck.
RemovalOf(codes, stuck, stuckMovies) ==
  /\ disk' = [f \in Files |-> IF f \in Unlinked(codes) \ stuck THEN NoFile ELSE disk[f]]
  /\ movies' = movies \ (MoviesUnlinked(codes) \ stuckMovies)
  /\ upsets' = upsets => stuck = {} /\ stuckMovies = {}
  /\ excused' = excused \cup {r.capture : r \in Gone(codes)}
                  \cup UNION {disk[f] : f \in Unlinked(codes) \ stuck}

\* What a removal of recordings does.
LEMMA RemoveFacts ==
  ASSUME IInv, NEW codes, Remove(codes)
  PROVE  /\ media' = media \ Gone(codes)
         /\ UNCHANGED <<sessions, notices, listing, now, captures>>
         /\ upsets' \in 0 .. MaxUpsets
         /\ \E stuck \in SUBSET Unlinked(codes), stuckMovies \in SUBSET MoviesUnlinked(codes) :
              RemovalOf(codes, stuck, stuckMovies)
  <1>1. upsets \in 0 .. MaxUpsets /\ MaxUpsets \in Nat
    BY MediaAssumption DEF IInv, Bounded
  <1>2. Upset => upsets' \in 0 .. MaxUpsets /\ upsets' # upsets
    BY <1>1 DEF Upset
  <1>3. PICK stuck \in SUBSET Unlinked(codes), stuckMovies \in SUBSET MoviesUnlinked(codes) :
          /\ disk' = [f \in Files |-> IF f \in Unlinked(codes) \ stuck THEN NoFile ELSE disk[f]]
          /\ movies' = movies \ (MoviesUnlinked(codes) \ stuckMovies)
          /\ IF stuck \cup stuckMovies = {} THEN UNCHANGED upsets ELSE Upset
          /\ excused' = excused \cup {r.capture : r \in Gone(codes)}
                          \cup UNION {disk[f] : f \in Unlinked(codes) \ stuck}
    BY DEF Remove, Gone, Unlinked, MoviesUnlinked
  <1>4. media' = media \ Gone(codes) /\ UNCHANGED <<sessions, notices, listing, now, captures>>
    BY DEF Remove, Gone
  <1>5. /\ upsets' \in 0 .. MaxUpsets
        /\ upsets' = upsets => stuck = {} /\ stuckMovies = {}
    BY <1>1, <1>2, <1>3
  <1> QED BY <1>3, <1>4, <1>5 DEF RemovalOf

\* Recordings are removed.
LEMMA RemoveKeeps ==
  ASSUME IInv, NEW codes \in SUBSET {r.code : r \in media}, Remove(codes) PROVE IInv'
  <1> DEFINE gone == Gone(codes)
             flvs == Unlinked(codes)
  <1>1. PICK stuck \in SUBSET flvs, stuckMovies \in SUBSET MoviesUnlinked(codes) :
          RemovalOf(codes, stuck, stuckMovies)
    BY RemoveFacts
  <1>2. /\ disk' = [f \in Files |-> IF f \in flvs \ stuck THEN NoFile ELSE disk[f]]
        /\ movies' \subseteq movies
        /\ excused' = excused \cup {r.capture : r \in gone}
                        \cup UNION {disk[f] : f \in flvs \ stuck}
    BY <1>1 DEF RemovalOf
  <1>3. /\ media' = media \ gone /\ UNCHANGED <<sessions, notices, listing, now, captures>>
        /\ upsets' \in 0 .. MaxUpsets
    BY RemoveFacts
  <1>4. \A r \in media : r.capture \in Captures /\ r.flv \in Files
    BY DEF IInv, Library, Records
  <1>5. Library(media')
    BY <1>3, PartIsLibrary DEF IInv, Gone
  <1>6. flvs \subseteq Files /\ \A f \in flvs : disk[f] \subseteq Captures
    BY <1>4 DEF IInv, FilesOK, Gone, Unlinked
  <1>7. FilesOK'
    <2> HIDE DEF flvs
    <2> QED BY <1>2 DEF IInv, FilesOK
  <1>8. excused \subseteq excused' /\ excused' \subseteq Captures
    <2>1. {r.capture : r \in gone} \subseteq Captures
      BY <1>4 DEF Gone
    <2> HIDE DEF flvs, gone
    <2> QED BY <1>2, <1>6, <2>1 DEF IInv
  <1>9. FramesStay
    <2>1. \A f \in flvs \ stuck : disk[f] \subseteq excused'
      BY <1>2
    <2>2. \A f \in Files \ (flvs \ stuck) : disk'[f] = disk[f]
      BY <1>2
    <2> HIDE DEF flvs
    <2> QED BY <2>1, <2>2 DEF FramesStay
  <1>10. RecordsStay
    BY <1>2, <1>3 DEF RecordsStay
  <1>11. ListingOK' /\ notices' \subseteq NoticeRows
    BY <1>3 DEF IInv, ListingOK
  <1> QED BY <1>3, <1>5, <1>7, <1>8, <1>9, <1>10, <1>11, RequestKeeps

\* A frame for a capture that is under way; its file may have been removed.
LEMMA FrameKeeps ==
  ASSUME IInv, NEW c \in Connections, Media(c), Capturing(c) PROVE IInv'
  <1> DEFINE s == sessions[c]
  <1>1. /\ s \in Sessions /\ s.flv \in Files /\ s.capture \in Captures
        /\ sessions' = [sessions EXCEPT ![c].quiet = 0]
        /\ disk' = IF disk[s.flv] = NoFile THEN disk
                     ELSE [disk EXCEPT ![s.flv] = @ \cup {s.capture}]
        /\ UNCHANGED <<captures, excused>>
    BY CapturingFacts DEF Media
  <1>2. UNCHANGED <<movies, media, notices, listing, now, upsets>>
    BY DEF Media
  <1>3. /\ [s EXCEPT !.quiet = 0] \in Sessions
        /\ [s EXCEPT !.quiet = 0].flv = s.flv /\ [s EXCEPT !.quiet = 0].capture = s.capture
    BY <1>1, MediaAssumption DEF Sessions
  <1>4. sessions' \in [Connections -> Sessions \cup {NoFile}]
    BY <1>1, <1>3 DEF IInv, SessionsOK
  <1>5. \A d \in Connections : /\ Capturing(d)' <=> Capturing(d)
                               /\ Capturing(d) =>
                                    /\ sessions'[d].capture = sessions[d].capture
                                    /\ sessions'[d].flv = sessions[d].flv
    <2> TAKE d \in Connections
    <2>1. CASE d = c
      BY <1>1, <1>3, <2>1, NoFileAssumption DEF Capturing, IsOpen, IInv, SessionsOK
    <2>2. CASE d # c
      BY <1>1, <2>2 DEF Capturing, IsOpen, IInv, SessionsOK
    <2> QED BY <2>1, <2>2
  <1>6. SessionsGoOn /\ Running' = Running
    BY <1>4, <1>5, AllGoOn
  <1>7. FilesOK'
    BY <1>1, <1>2 DEF IInv, FilesOK
  <1>8. FramesStay
    BY <1>1, NoFileAssumption DEF FramesStay, IInv, FilesOK
  <1>9. Bounded' /\ ListingOK' /\ RecordsStay /\ EndedAreKept
    BY <1>1, <1>2, <1>6 DEF IInv, Bounded, ListingOK, RecordsStay, EndedAreKept
  <1>10. excused \subseteq excused' /\ excused' \subseteq Captures /\ Library(media')
         /\ notices' \subseteq NoticeRows
    BY <1>1, <1>2 DEF IInv
  <1> QED BY <1>1, <1>6, <1>7, <1>8, <1>9, <1>10, StepKeepsInvariant

\* _open_capture: another capture begins, over the file of that name.
LEMMA OpeningKeeps ==
  ASSUME IInv, NEW c \in Connections, Media(c), ~Capturing(c) PROVE IInv'
  <1> DEFINE f == Opened(c).flv
             k == captures + 1
  <1>1. /\ IsOpen(c) /\ captures < MaxCaptures /\ sessions[c].seq < MaxSeq
        /\ sessions' = [sessions EXCEPT ![c] = Opened(c)]
        /\ disk' = [disk EXCEPT ![f] = {k}]
        /\ captures' = k
        /\ excused' = IF disk[f] = NoFile THEN excused ELSE excused \cup disk[f]
        /\ UNCHANGED <<movies, media, notices, listing, now, upsets>>
    BY DEF Media
  <1>2. /\ k \in Captures /\ k \in 1 .. MaxCaptures /\ captures \in 0 .. MaxCaptures
        /\ 1 .. captures' = 1 .. captures \cup {k}
    BY <1>1, MediaAssumption DEF IInv, Bounded, Captures
  <1>3. sessions[c] \in Sessions
    BY <1>1 DEF IInv, SessionsOK, IsOpen
  <1>4. Opened(c) \in Sessions /\ f \in Files /\ Opened(c).capture = k
    <2>1. sessions[c].seq + 1 \in 1 .. MaxSeq /\ now \in Times /\ CameraOf[c] \in Cameras
      BY <1>1, <1>3, MediaAssumption DEF Sessions, IInv, Bounded
    <2>2. [at |-> now, camera |-> CameraOf[c], seq |-> sessions[c].seq + 1] \in Files
      BY <2>1 DEF Files
    <2>3. k \in 0 .. MaxCaptures /\ sessions[c].seq + 1 \in 0 .. MaxSeq /\ 0 \in 0 .. IdleTime
      BY <1>2, <2>1, MediaAssumption
    <2>4. Opened(c) = [flv |-> [at |-> now, camera |-> CameraOf[c], seq |-> sessions[c].seq + 1],
                       capture |-> k, start |-> now, seq |-> sessions[c].seq + 1, quiet |-> 0]
      BY DEF Opened
    <2>5. Opened(c) \in Sessions
      BY <2>1, <2>2, <2>3, <2>4 DEF Sessions
    <2> QED BY <2>2, <2>4, <2>5
  <1>5. FilesOK'
    BY <1>1, <1>2, <1>4 DEF IInv, FilesOK
  <1>6. disk'[f] = {k} /\ \A g \in Files \ {f} : disk'[g] = disk[g]
    BY <1>1, <1>4 DEF IInv, FilesOK
  <1>7. excused \subseteq excused' /\ excused' \subseteq Captures
    BY <1>1, <1>4 DEF IInv, FilesOK
  <1>8. FramesStay /\ RecordsStay
    <2>1. disk[f] # NoFile => disk[f] \subseteq excused'
      BY <1>1
    <2> HIDE DEF f
    <2> QED BY <1>1, <1>6, <2>1 DEF FramesStay, RecordsStay
  <1>9. \A d \in Connections \ {c} : sessions'[d] = sessions[d]
    BY <1>1 DEF IInv, SessionsOK
  <1>10. sessions'[c] = Opened(c)
    BY <1>1 DEF IInv, SessionsOK
  <1>11. Running \subseteq Running' /\ k \in Running'
    <2>1. \A d \in Connections \ {c} : Capturing(d)' <=> Capturing(d)
      BY <1>9 DEF Capturing, IsOpen
    <2>2. Capturing(c)'
      BY <1>4, <1>10, NoFileAssumption DEF Capturing, IsOpen
    <2>3. k \in Running'
      BY <1>4, <1>10, <2>2 DEF Running
    <2> QED BY <1>9, <2>1, <2>3 DEF Running
  <1>12. SessionsOK'
    <2>1. sessions' \in [Connections -> Sessions \cup {NoFile}]
      BY <1>1, <1>4 DEF IInv, SessionsOK
    <2>2. ASSUME NEW d \in Connections \ {c}, Capturing(d)'
          PROVE  (/\ sessions[d].capture \in 1 .. captures
                  /\ FramesIn(sessions[d].capture, sessions[d].flv))'
      <3>1. Capturing(d)
        BY <1>9, <2>2 DEF Capturing, IsOpen
      <3>2. /\ sessions[d].flv \in Files /\ sessions[d].capture \in 1 .. captures
            /\ FramesIn(sessions[d].capture, sessions[d].flv)
        BY <3>1, CapturingFacts
      <3> DEFINE j == sessions[d].capture
                 g == sessions[d].flv
      <3>3. j \in excused' \/ (disk'[g] # NoFile /\ j \in disk'[g])
        BY <1>7, <1>8, <3>2 DEF FramesIn, FramesStay
      <3> QED BY <1>2, <1>9, <3>2, <3>3 DEF FramesIn
    <2>3. (/\ sessions[c].capture \in 1 .. captures
           /\ FramesIn(sessions[c].capture, sessions[c].flv))'
      <3>1. disk'[f] # NoFile
        BY <1>2, <1>6, NoFileAssumption
      <3> QED BY <1>2, <1>4, <1>6, <1>10, <3>1 DEF FramesIn
    <2> QED BY <2>1, <2>2, <2>3 DEF SessionsOK
  <1>13. \A j \in 1 .. captures' : j \in Running' \/ j \in excused' \/ Watchable(j, media)'
    <2> SUFFICES ASSUME NEW j \in 1 .. captures
                 PROVE  j \in Running' \/ j \in excused' \/ Watchable(j, media)'
      BY <1>2, <1>11
    <2>1. CASE Watchable(j, media)
      BY <1>8, <2>1, WatchableStays
    <2> QED BY <1>7, <1>11, <2>1 DEF IInv
  <1>14. Bounded' /\ ListingOK' /\ Library(media') /\ notices' \subseteq NoticeRows
    BY <1>1, <1>2, MediaAssumption DEF IInv, Bounded, ListingOK
  <1> QED BY <1>5, <1>7, <1>12, <1>13, <1>14 DEF IInv

-----------------------------------------------------------------------------
(***************************************************************************)
(* The theorems.                                                           *)
(***************************************************************************)
LEMMA InitEstablishes == Init => IInv
  <1> SUFFICES ASSUME Init PROVE IInv
    OBVIOUS
  <1>1. Library(media)
    BY FS_EmptySet, MediaAssumption DEF Init, Library, Unique
  <1>2. SessionsOK
    BY DEF Init, SessionsOK, Capturing, IsOpen
  <1>3. Bounded
    BY MediaAssumption DEF Init, Bounded, Times
  <1> QED BY <1>1, <1>2, <1>3, MediaAssumption DEF Init, IInv, FilesOK, ListingOK

LEMMA StepsKeep == IInv /\ [Next]_vars => IInv'
  <1> SUFFICES ASSUME IInv, [Next]_vars PROVE IInv'
    OBVIOUS
  <1>1. ASSUME NEW c \in Connections, Connect(c) PROVE IInv'
    BY <1>1, ConnectKeeps
  <1>2. ASSUME NEW c \in Connections, Publish(c) PROVE IInv'
    BY <1>2, PublishKeeps
  <1>3. ASSUME NEW c \in Connections, Media(c) PROVE IInv'
    BY <1>3, FrameKeeps, OpeningKeeps
  <1>4. ASSUME NEW c \in Connections, Ping(c) PROVE IInv'
    BY <1>4, PingKeeps
  <1>5. ASSUME NEW c \in Connections, Close(c) PROVE IInv'
    BY <1>5, CloseKeeps
  <1>6. ASSUME RemoveSome PROVE IInv'
    BY <1>6, RemoveKeeps DEF RemoveSome
  <1>7. ASSUME NEW n \in Notices, NEW k \in Cameras, Notice(n, k) PROVE IInv'
    BY <1>7, NoticeKeeps
  <1>8. ASSUME NEW r \in media, Assets(r) PROVE IInv'
    BY <1>8, AssetsKeeps
  <1>9. CASE List
    BY <1>9, ListKeeps
  <1>10. CASE Listed
    BY <1>10, ListedKeeps
  <1>11. CASE Stop
    BY <1>11, StopKeeps
  <1>12. CASE Tick
    BY <1>12, TickKeeps
  <1>13. CASE UNCHANGED vars
    <2>1. /\ \A c \in Connections : Capturing(c)' <=> Capturing(c)
          /\ \A k \in 1 .. captures : Watchable(k, media)' <=> Watchable(k, media)
      BY <1>13 DEF vars, Capturing, IsOpen, Watchable
    <2>2. Running' = Running
      BY <1>13, <2>1 DEF vars, Running
    <2>3. SessionsOK'
      BY <1>13, <2>1 DEF vars, IInv, SessionsOK, FramesIn
    <2>4. (Bounded /\ FilesOK /\ ListingOK /\ Library(media) /\ notices \subseteq NoticeRows
           /\ excused \subseteq Captures)'
      BY <1>13 DEF vars, IInv, Bounded, FilesOK, ListingOK
    <2>5. \A k \in 1 .. captures' : k \in Running' \/ k \in excused' \/ Watchable(k, media)'
      BY <1>13, <2>1, <2>2 DEF vars, IInv
    <2> QED BY <2>3, <2>4, <2>5 DEF IInv
  <1> QED
    BY <1>1, <1>2, <1>3, <1>4, <1>5, <1>6, <1>7, <1>8, <1>9, <1>10, <1>11, <1>12, <1>13
    DEF Next

LEMMA Invariance == Spec => []IInv
  BY InitEstablishes, StepsKeep, PTL DEF Spec

\* The library keeps to its cap and its rows to their shape, whatever list
\* request saves late (the save of app/store_domains/cloud.py's library).
THEOREM LibraryIsTyped == Spec => []TypeOK
  <1>1. IInv => TypeOK
    BY InvariantImplies
  <1> QED BY <1>1, Invariance, PTL

\* No two recordings of the library answer to one stream code.
THEOREM CodesAreUnique == Spec => []StreamCodesUnique
  <1>1. IInv => StreamCodesUnique
    BY InvariantImplies
  <1> QED BY <1>1, Invariance, PTL

\* A capture that is over is in the library with its frames, but for the ways
\* of losing one that the code has.
THEOREM RecordingsAreKept == Spec => []NothingElseIsLost
  <1>1. IInv => NothingElseIsLost
    BY InvariantImplies
  <1> QED BY <1>1, Invariance, PTL

\* remove_cloud_media leaves nothing of a recording to be played unless an
\* unlink fails, and takes no file that no removed recording names.
THEOREM RemovalsAreComplete == Spec => RemovalTakesItsFiles
  <1> DEFINE Complete ==
        RemoveSome =>
          /\ upsets' = upsets =>
               \A r \in media \ media' : disk'[r.flv] = NoFile
                                          /\ (disk[r.flv] # NoFile => r.flv \notin movies')
          /\ \A f \in Files : (\A r \in media \ media' : r.flv # f)
               => disk'[f] = disk[f] /\ (f \in movies => f \in movies')
  <1>1. ASSUME IInv, RemoveSome PROVE Complete
    <2>1. PICK codes \in SUBSET {r.code : r \in media} : Remove(codes)
      BY <1>1 DEF RemoveSome
    <2> DEFINE gone == Gone(codes)
               flvs == Unlinked(codes)
               itsMovies == MoviesUnlinked(codes)
    <2>2. PICK stuck \in SUBSET flvs, stuckMovies \in SUBSET itsMovies :
            RemovalOf(codes, stuck, stuckMovies)
      BY <1>1, <2>1, RemoveFacts
    <2>3. /\ disk' = [f \in Files |-> IF f \in flvs \ stuck THEN NoFile ELSE disk[f]]
          /\ movies' = movies \ (itsMovies \ stuckMovies)
          /\ upsets' = upsets => stuck = {} /\ stuckMovies = {}
      BY <2>2 DEF RemovalOf
    <2>4. media' = media \ gone
      BY <1>1, <2>1, RemoveFacts
    <2>5. \A r \in media : r \in Records /\ r.flv \in Files
      BY <1>1 DEF IInv, Library, Records
    <2>6. \A r \in media : disk[r.flv] # NoFile /\ r.flv \in movies => WithMovie(r).movie
      BY <2>5 DEF WithMovie, Records
    <2>7. media \ media' = gone /\ gone \subseteq media
      BY <2>4 DEF Gone
    <2>8. ASSUME upsets' = upsets, NEW r \in gone
          PROVE  disk'[r.flv] = NoFile /\ (disk[r.flv] # NoFile => r.flv \notin movies')
      <3>1. r \in media /\ r.flv \in Files
        BY <2>5, <2>7
      <3>2. disk[r.flv] # NoFile => r.flv \in flvs
        BY DEF Unlinked
      <3>3. disk[r.flv] # NoFile /\ r.flv \in movies => r.flv \in itsMovies
        BY <2>6, <3>1 DEF MoviesUnlinked
      <3> HIDE DEF gone, flvs, itsMovies
      <3> QED BY <2>3, <2>8, <3>1, <3>2, <3>3
    <2>9. ASSUME NEW f \in Files, \A r \in gone : r.flv # f
          PROVE  disk'[f] = disk[f] /\ (f \in movies => f \in movies')
      <3>1. f \notin flvs /\ f \notin itsMovies
        BY <2>9 DEF Unlinked, MoviesUnlinked
      <3> HIDE DEF gone, flvs, itsMovies
      <3> QED BY <2>3, <3>1
    <2> HIDE DEF gone
    <2> QED BY <2>7, <2>8, <2>9
  <1>2. IInv /\ [Next]_vars => [Complete]_vars
    BY <1>1
  <1> QED BY <1>2, Invariance, PTL DEF Spec, RemovalTakesItsFiles

=============================================================================
