------------------------- MODULE ContentServerProofs -------------------------
(***************************************************************************)
(* Proofs about ContentServer, for any sizes, environments, upload limits, *)
(* posts, editors and page sizes: uploads are judged right, and a client   *)
(* that walks to the end of the list has seen what stood still.            *)
(*                                                                         *)
(* The two limits are one number: a file that fits in a body that fits is  *)
(* smaller than the limit, so the service reads all of it (Reads), except  *)
(* at the one limit at which limit + 1 wraps around.                       *)
(*                                                                         *)
(* An article the walk still owes its client is never among the rows the   *)
(* client has counted past (WalkInv): only a write to another article that *)
(* leaves that place moves it up, and then that article has slipped off    *)
(* behind the client (KeepsPlace).                                         *)
(***************************************************************************)
EXTENDS ContentServer, FiniteSetTheorems, TLAPS

(* What an environment makes of the upload limit, once it is accepted.     *)
Limits == 1..MaxInt

(* What has got as far as Put is an image that was read whole, and nothing *)
(* is stored of an upload before.                                          *)
ReadWhole(u) == IsImage(u) /\ BytesRead(u.size, Wrap(u.limit + 1)) = u.size

UInv ==
  /\ phase # "down" => cfg.uploadMax \in Limits
  /\ IsUpload(upload)
  /\ upload.pc = "put" => ReadWhole(upload)
  /\ upload.pc = "answered" => JudgedRight(upload)

-----------------------------------------------------------------------------
(* The limit and the bytes.                                                *)

LEMMA AcceptedLimit ==
  ASSUME NEW env \in Environments, Accepts(Load(env))
  PROVE  Load(env).uploadMax \in Limits
<1>1. Load(env).uploadMax = IF env.uploadMax = NULL THEN DefaultUploadMax ELSE env.uploadMax
  BY DEF Load, Getenv
<1>2. Load(env).uploadMax > 0
  BY DEF Accepts
<1> QED
  BY <1>1, <1>2, EnvironmentAssumption, WidthAssumption DEF Limits

(* A file is read whole unless it is larger than allowed or the limit is   *)
(* the one that wraps.                                                     *)
LEMMA Reads ==
  ASSUME NEW limit \in Limits, NEW size \in Nat, size <= limit, limit # MaxInt
  PROVE  BytesRead(size, Wrap(limit + 1)) = size
<1>1. Wrap(limit + 1) = limit + 1
  BY WidthAssumption DEF Wrap, Limits
<1> QED
  BY <1>1, WidthAssumption DEF BytesRead, Limits

LEMMA ReadsNothing ==
  ASSUME NEW size \in Nat
  PROVE  BytesRead(size, Wrap(MaxInt + 1)) = 0
<1>1. Wrap(MaxInt + 1) <= 0
  BY WidthAssumption DEF Wrap
<1> QED
  BY <1>1, WidthAssumption DEF BytesRead, Wrap

(* What each verdict of the service says of the file.                      *)
LEMMA ServiceVerdict ==
  ASSUME NEW kind \in Kinds, NEW size \in Nat, NEW limit \in Limits, NEW fault \in Faults,
         size <= limit, kind # "none"
  PROVE  LET v == UploadVerdict(kind, size, limit, fault) IN
           /\ v \in {"invalid", "failed", "put"}
           /\ v = "invalid" => kind = "other" \/ size = 0 \/ limit = MaxInt
           /\ v = "put" => kind # "other" /\ size > 0 /\ limit # MaxInt
           /\ v = "failed" => fault # "none"
<1> DEFINE n == Wrap(limit + 1)
           bytes == BytesRead(size, n)
<1>1. bytes = IF limit = MaxInt THEN 0 ELSE size
  BY Reads, ReadsNothing
<1>2. ~(bytes > limit) /\ limit \in Int
  BY <1>1, WidthAssumption DEF Limits
<1> HIDE DEF bytes
<1>3. UploadVerdict(kind, size, limit, fault) =
        IF fault = "read" /\ n > 0 THEN "failed"
        ELSE IF Sniffed(kind, bytes) = "other" THEN "invalid"
        ELSE IF fault = "id" THEN "failed"
        ELSE "put"
  BY <1>2 DEF UploadVerdict, bytes
<1> HIDE DEF n
<1> QED
  BY <1>1, <1>3 DEF Sniffed

LEMMA VerdictIsRight ==
  ASSUME NEW kind \in Kinds, NEW size \in Nat, NEW limit \in Limits, NEW fault \in Faults
  PROVE  LET v == HandlerVerdict(kind, size, limit, fault) IN
           /\ v \in {"tooLarge", "noFile", "invalid", "failed", "put"}
           /\ v = "invalid" => kind \in {"other", "none"} \/ size = 0 \/ limit = MaxInt
           /\ v = "put" => /\ kind \notin {"other", "none"} /\ size > 0
                          /\ size <= limit /\ limit # MaxInt
           /\ v \in {"tooLarge", "noFile"} =>
                size + Overhead > limit \/ fault # "none" \/ kind = "none"
           /\ v = "failed" => fault # "none"
<1>1. limit \in Int /\ Overhead \in Nat
  BY WidthAssumption DEF Limits
<1>2. CASE fault = "body"
  <2>1. HandlerVerdict(kind, size, limit, fault) = "noFile"
    BY <1>2 DEF HandlerVerdict
  <2> QED
    BY <1>2, <2>1
<1>3. CASE fault # "body" /\ ~Fits(size + Overhead, limit)
  <2>1. HandlerVerdict(kind, size, limit, fault) = "tooLarge"
    BY <1>3 DEF HandlerVerdict
  <2> QED
    BY <1>1, <1>3, <2>1 DEF Fits
<1>4. CASE fault # "body" /\ Fits(size + Overhead, limit) /\ kind = "none"
  <2>1. HandlerVerdict(kind, size, limit, fault) = "noFile"
    BY <1>4 DEF HandlerVerdict
  <2> QED
    BY <1>4, <2>1
<1>5. CASE fault # "body" /\ Fits(size + Overhead, limit) /\ kind # "none"
  <2>1. HandlerVerdict(kind, size, limit, fault) = UploadVerdict(kind, size, limit, fault)
    BY <1>5 DEF HandlerVerdict
  <2>2. size <= limit
    BY <1>1, <1>5 DEF Fits
  <2> QED
    BY <1>5, <2>1, <2>2, ServiceVerdict
<1> QED
  BY <1>2, <1>3, <1>4, <1>5

-----------------------------------------------------------------------------
(* The steps of an upload.                                                 *)

LEMMA ReceivedIsRight ==
  ASSUME NEW kind \in Kinds, NEW size \in Nat, NEW limit \in Limits, NEW fault \in Faults
  PROVE  LET u == Received(kind, size, limit, fault) IN
           /\ IsUpload(u)
           /\ u.pc = "put" => ReadWhole(u)
           /\ u.pc = "answered" => JudgedRight(u)
<1> DEFINE v == HandlerVerdict(kind, size, limit, fault)
<1>1. /\ v \in {"tooLarge", "noFile", "invalid", "failed", "put"}
      /\ v = "invalid" => kind \in {"other", "none"} \/ size = 0 \/ limit = MaxInt
      /\ v = "put" => /\ kind \notin {"other", "none"} /\ size > 0
                     /\ size <= limit /\ limit # MaxInt
      /\ v \in {"tooLarge", "noFile"} =>
           size + Overhead > limit \/ fault # "none" \/ kind = "none"
      /\ v = "failed" => fault # "none"
  BY VerdictIsRight
<1>2. limit \in Nat /\ Overhead \in Nat
  BY WidthAssumption DEF Limits
<1> HIDE DEF v
<1>3. CASE v = "put"
  <2> DEFINE u == [pc |-> "put", kind |-> kind, size |-> size, limit |-> limit,
                   fault |-> fault, answer |-> "", stored |-> {}]
  <2>1. Received(kind, size, limit, fault) = u
    BY <1>3 DEF Received, NoUpload, v
  <2>2. IsUpload(u) /\ u.pc = "put" /\ u.kind = kind /\ u.size = size /\ u.limit = limit
    BY <1>2 DEF IsUpload
  <2> HIDE DEF u
  <2>3. ReadWhole(u)
    BY <1>1, <1>3, <2>2, Reads DEF ReadWhole, IsImage
  <2> QED
    BY <2>1, <2>2, <2>3
<1>4. CASE v # "put"
  <2> DEFINE u == [pc |-> "answered", kind |-> kind, size |-> size, limit |-> limit,
                   fault |-> fault, answer |-> v, stored |-> {}]
  <2>1. Received(kind, size, limit, fault) = u
    BY <1>4 DEF Received, NoUpload, v
  <2>2. IsUpload(u) /\ u.pc = "answered"
    BY <1>1, <1>2, <1>4 DEF IsUpload
  <2>3. /\ u.kind = kind /\ u.size = size /\ u.limit = limit /\ u.fault = fault
        /\ u.answer = v /\ u.stored = {}
    OBVIOUS
  <2> HIDE DEF u
  <2>4. u.answer = "invalid" => ~IsImage(u) \/ Banned(u)
    BY <1>1, <2>3 DEF IsImage, Banned
  <2>5. IsImage(u) /\ u.size + Overhead <= u.limit /\ u.fault = "none" /\ ~Banned(u)
          => u.answer \in {"created", "failed"}
    BY <1>1, <1>2, <1>4, <2>3 DEF IsImage, Banned
  <2>6. JudgedRight(u)
    BY <1>1, <2>3, <2>4, <2>5 DEF JudgedRight
  <2> QED
    BY <2>1, <2>2, <2>6
<1> QED
  BY <1>3, <1>4

LEMMA PutIsRight ==
  ASSUME NEW u, IsUpload(u), ReadWhole(u),
         NEW applied \in BOOLEAN, NEW succeeded \in BOOLEAN, succeeded => applied
  PROVE  LET w == PutDone(u, applied, succeeded) IN
           IsUpload(w) /\ w.pc = "answered" /\ JudgedRight(w)
<1> DEFINE w == PutDone(u, applied, succeeded)
<1>1. u.size \in Nat /\ u \in [pc : {"idle", "put", "answered"}, kind : Kinds, size : Nat,
         limit : Nat, fault : Faults, stored : SUBSET Nat,
         answer : {"", "tooLarge", "noFile", "invalid", "created", "failed"}]
  BY DEF IsUpload
<1>2. /\ w.pc = "answered" /\ w.kind = u.kind /\ w.size = u.size
      /\ w.stored = IF applied THEN {u.size} ELSE {}
      /\ w.answer = IF succeeded THEN "created" ELSE "failed"
  BY <1>1 DEF PutDone, ReadWhole
<1>3. IsUpload(w)
  BY <1>1 DEF PutDone, IsUpload, ReadWhole
<1> HIDE DEF w
<1>4. IsImage(w)
  BY <1>2 DEF IsImage, ReadWhole
<1>5. JudgedRight(w)
  BY <1>2, <1>4 DEF JudgedRight
<1> QED
  BY <1>2, <1>3, <1>5 DEF w

LEMMA NoUploadInv == IsUpload(NoUpload) /\ NoUpload.pc = "idle"
  BY KindAssumption DEF IsUpload, NoUpload, Faults

LEMMA UploadStep ==
  ASSUME UInv, [ContentNext]_contentVars
  PROVE  UInv'
<1>1. ASSUME NEW env \in Environments, Start(env) PROVE UInv'
  BY <1>1, AcceptedLimit DEF Start, UInv
<1>2. CASE OpenDatabase \/ Listen \/ Signal \/ Shutdown
  BY <1>2 DEF OpenDatabase, Listen, Signal, Shutdown, UInv
<1>3. CASE End
  BY <1>3, NoUploadInv DEF End, UInv
<1>4. CASE ExitOnError \/ Drained \/ DeadlineExceeded \/ Crash
  BY <1>3, <1>4 DEF ExitOnError, Drained, DeadlineExceeded, Crash
<1>5. CASE (\E e \in Editors : Write(e)) \/ List \/ Finish \/ ListFails
  BY <1>5 DEF Write, List, Finish, ListFails, serverVars, UInv
<1>6. ASSUME NEW kind \in Kinds, NEW size \in Sizes, NEW fault \in Faults,
             Upload(kind, size, fault)
      PROVE  UInv'
  <2>1. cfg.uploadMax \in Limits /\ size \in Nat
    BY <1>6, EnvironmentAssumption DEF Upload, UInv
  <2>2. upload' = Received(kind, size, cfg.uploadMax, fault) /\ UNCHANGED <<phase, cfg>>
    BY <1>6 DEF Upload
  <2> QED
    BY <2>1, <2>2, ReceivedIsRight DEF UInv
<1>7. ASSUME NEW applied \in BOOLEAN, NEW succeeded \in BOOLEAN, Put(applied, succeeded)
      PROVE  UInv'
  BY <1>7, PutIsRight DEF Put, UInv
<1>8. CASE Client
  BY <1>8, NoUploadInv DEF Client, UInv
<1>9. CASE UNCHANGED contentVars
  BY <1>9 DEF contentVars, serverVars, UInv
<1> QED
  BY <1>1, <1>2, <1>4, <1>5, <1>6, <1>7, <1>8, <1>9 DEF ContentNext

(* Whatever an upload leaves in the store is the whole of an image, one    *)
(* that was told so has left it there, no image is called invalid but at   *)
(* the limit that wraps, and none that arrives within the limit is turned  *)
(* away, for every limit that config.Load accepts and every file, whatever *)
(* fails on the way and whatever becomes of the Put and of the process.    *)
THEOREM UploadsAreJudgedRight == ContentSpec => []UploadsJudgedRight
<1>1. ContentInit => UInv
  BY NoUploadInv DEF ContentInit, UInv
<1>2. UInv /\ [ContentNext]_contentVars => UInv'
  BY UploadStep
<1>3. UInv => UploadsJudgedRight
  BY DEF UInv, UploadsJudgedRight
<1> QED
  BY <1>1, <1>2, <1>3, PTL DEF ContentSpec

-----------------------------------------------------------------------------
(* The list.  Its times are in order, and the rows there are have one each *)
(* beside the statements under way.                                        *)

Ordered(times) ==
  /\ times \in [DOMAIN times -> SUBSET DOMAIN times]
  /\ \A x \in DOMAIN times : x \notin times[x]
  /\ \A x, y \in DOMAIN times : x # y => x \in times[y] \/ y \in times[x]
  /\ \A x, y, z \in DOMAIN times : x \in times[y] /\ y \in times[z] => x \in times[z]

Statuses == {"draft", "published"}

RowsInv ==
  /\ DOMAIN status \subseteq Posts
  /\ IsFiniteSet(DOMAIN status)
  /\ status \in [DOMAIN status -> Statuses]
  /\ write \in [Editors -> {NoWrite} \cup [post : Posts, status : Statuses, sent : BOOLEAN]]

TimesInv ==
  /\ Ordered(newer)
  /\ DOMAIN newer = DOMAIN status \cup Sent

WalkTypeOK ==
  walk \in [pc : {"idle", "ask", "find", "done"}, filter : Filters \cup {""},
            limit : 1..MaxLimit, offset : Nat, total : Nat, missing : SUBSET Posts]

(* Between the two statements of a page nothing joins that the total does  *)
(* not count, as long as anything is missing.                              *)
WalkInv ==
  /\ walk.missing \subseteq Matching(walk.filter)
  /\ \A q \in walk.missing : walk.offset <= Place(q, Matching(walk.filter), newer)
  /\ walk.pc = "find" /\ walk.missing # {} =>
       Cardinality(Matching(walk.filter)) <= walk.total
  /\ walk.pc \in {"idle", "done"} => walk.missing = {}

LInv == RowsInv /\ TimesInv /\ WalkTypeOK /\ WalkInv

-----------------------------------------------------------------------------
(* What the operators on times and places do.                              *)

LEMMA TimesLeft ==
  ASSUME Ordered(newer), NEW T \in SUBSET DOMAIN newer
  PROVE  /\ Ordered(TimesOf(T)) /\ DOMAIN TimesOf(T) = T
         /\ \A x \in T : TimesOf(T)[x] = newer[x] \cap T
  BY DEF Ordered, TimesOf

LEMMA TimesLater ==
  ASSUME Ordered(newer), NEW e, e \notin DOMAIN newer,
         NEW times, times = [x \in DOMAIN newer \cup {e} |->
                               IF x = e THEN {} ELSE newer[x] \cup {e}]
  PROVE  Ordered(times)
  BY DEF Ordered

(* p stands where e stood, and every other article where it stood.         *)
LEMMA TimeTaken ==
  ASSUME Ordered(newer), NEW e \in DOMAIN newer, NEW p, p # e
  PROVE  LET after == TimesAfter(e, p) IN
           /\ Ordered(after) /\ DOMAIN after = (DOMAIN newer \ {e}) \cup {p}
           /\ \A x, y \in DOMAIN newer \ {e, p} : x \in after[y] <=> x \in newer[y]
<1> DEFINE T == (DOMAIN newer \ {e}) \cup {p}
           At(x) == IF x = p THEN e ELSE x
           after == TimesAfter(e, p)
<1>1. after = [x \in T |-> {y \in T : At(y) \in newer[At(x)]}]
  BY DEF TimesAfter
<1>2. DOMAIN after = T /\ \A x, y \in T : y \in after[x] <=> At(y) \in newer[At(x)]
  BY <1>1
<1>3. \A x \in T : after[x] \subseteq T
  BY <1>1
<1>4. after = [x \in DOMAIN after |-> after[x]]
  BY <1>1
<1>5. \A x \in T : At(x) \in DOMAIN newer
  OBVIOUS
<1>6. \A x, y \in T : x # y => At(x) # At(y)
  OBVIOUS
<1>7. \A x, y \in DOMAIN newer \ {e, p} : x \in after[y] <=> x \in newer[y]
  BY <1>2
<1> HIDE DEF T, At, after
<1>8. after \in [DOMAIN after -> SUBSET DOMAIN after]
  BY <1>2, <1>3, <1>4
<1>9. \A x \in T : x \notin after[x]
  BY <1>2, <1>5 DEF Ordered
<1>10. \A x, y \in T : x # y => x \in after[y] \/ y \in after[x]
  BY <1>2, <1>5, <1>6 DEF Ordered
<1>11. \A x, y, z \in T : x \in after[y] /\ y \in after[z] => x \in after[z]
  BY <1>2, <1>5 DEF Ordered
<1>12. Ordered(after)
  BY <1>2, <1>8, <1>9, <1>10, <1>11 DEF Ordered
<1> QED
  BY <1>2, <1>7, <1>12 DEF T, after

LEMMA PlaceIsCount ==
  ASSUME NEW selected, IsFiniteSet(selected), NEW times, NEW p
  PROVE  IsFiniteSet(selected \cap times[p]) /\ Place(p, selected, times) \in Nat
  BY FS_Intersection, FS_CardinalityType DEF Place

(* Whatever comes before a row, or just is not after it, counts less.      *)
LEMMA PlaceBehind ==
  ASSUME NEW selected, IsFiniteSet(selected), NEW times, Ordered(times),
         selected \subseteq DOMAIN times,
         NEW p \in selected, NEW q \in selected, p \in times[q]
  PROVE  Place(p, selected, times) + 1 <= Place(q, selected, times)
<1> DEFINE ahead == selected \cap times[p]
           behind == selected \cap times[q]
<1>1. IsFiniteSet(ahead) /\ IsFiniteSet(behind)
  BY PlaceIsCount
<1>2. p \notin ahead /\ ahead \cup {p} \subseteq behind
  BY DEF Ordered
<1> HIDE DEF ahead, behind
<1>3. Cardinality(ahead \cup {p}) = Cardinality(ahead) + 1
  BY <1>1, <1>2, FS_AddElement
<1>4. Cardinality(ahead \cup {p}) <= Cardinality(behind)
  BY <1>1, <1>2, FS_Subset
<1> QED
  BY <1>3, <1>4 DEF Place, ahead, behind

LEMMA PlaceOnList ==
  ASSUME NEW selected, IsFiniteSet(selected), NEW times, Ordered(times),
         selected \subseteq DOMAIN times, NEW q \in selected
  PROVE  Place(q, selected, times) < Cardinality(selected)
<1> DEFINE ahead == selected \cap times[q]
<1>1. IsFiniteSet(ahead) /\ Cardinality(ahead) \in Nat /\ Cardinality(selected) \in Nat
  BY PlaceIsCount, FS_CardinalityType DEF Place
<1>2. q \notin ahead /\ ahead \cup {q} \subseteq selected
  BY DEF Ordered
<1> HIDE DEF ahead
<1>3. Cardinality(ahead \cup {q}) = Cardinality(ahead) + 1
  BY <1>1, <1>2, FS_AddElement
<1>4. Cardinality(ahead \cup {q}) <= Cardinality(selected)
  BY <1>2, FS_Subset
<1> QED
  BY <1>1, <1>3, <1>4 DEF Place, ahead

(* The heart of the walk: a write to p takes no other article q among the  *)
(* rows the client has counted, unless p was one of those and slips behind *)
(* them.                                                                   *)
LEMMA KeepsPlace ==
  ASSUME NEW old, IsFiniteSet(old), NEW times, Ordered(times), old \subseteq DOMAIN times,
         NEW new, IsFiniteSet(new), NEW after, Ordered(after), new \subseteq DOMAIN after,
         NEW p, new \ {p} = old \ {p},
         NEW q \in old, q # p, \A x \in old \ {p} : x \in after[q] <=> x \in times[q],
         NEW offset \in Nat, offset <= Place(q, old, times),
         \/ p \notin old
         \/ offset <= Place(p, old, times)
         \/ p \in new /\ Place(p, new, after) < offset
  PROVE  offset <= Place(q, new, after)
<1> DEFINE before == old \cap times[q]
           now == new \cap after[q]
<1>1. /\ IsFiniteSet(before) /\ IsFiniteSet(now) /\ Cardinality(before) \in Nat
      /\ Cardinality(now) \in Nat
  BY PlaceIsCount DEF Place
<1>2. before \ {p} = now \ {p}
  OBVIOUS
<1>3. offset <= Cardinality(before)
  BY DEF Place
<1>4. Place(q, new, after) = Cardinality(now)
  BY DEF Place
<1>5. q \in new
  OBVIOUS
<1>6. CASE p \in now \/ p \notin before
  <2>1. before \subseteq now
    BY <1>2, <1>6
  <2> HIDE DEF before, now
  <2>2. Cardinality(before) <= Cardinality(now)
    BY <1>1, <2>1, FS_Subset
  <2> QED
    BY <1>1, <1>3, <1>4, <2>2
<1>7. CASE p \notin now /\ p \in before
  <2>1. now = before \ {p}
    BY <1>2, <1>7
  <2>2. p \in old /\ p \in times[q]
    BY <1>7
  <2>3. Cardinality(now) = Cardinality(before) - 1
    <3> HIDE DEF before, now
    <3> QED
      BY <1>1, <1>7, <2>1, FS_RemoveElement
  <2>4. CASE offset <= Place(p, old, times)
    <3>1. Place(p, old, times) + 1 <= Place(q, old, times)
      BY <2>2, PlaceBehind
    <3>2. Place(p, old, times) \in Nat /\ Place(q, old, times) = Cardinality(before)
      BY PlaceIsCount DEF Place
    <3> QED
      BY <1>1, <1>4, <2>3, <2>4, <3>1, <3>2
  <2>5. CASE p \in new /\ Place(p, new, after) < offset
    <3>1. q \in after[p]
      BY <1>5, <1>7, <2>5 DEF Ordered
    <3>2. Place(q, new, after) + 1 <= Place(p, new, after)
      BY <1>5, <2>5, <3>1, PlaceBehind
    <3>3. Place(p, new, after) \in Nat
      BY PlaceIsCount
    <3> QED
      BY <1>1, <1>3, <1>4, <2>3, <2>5, <3>2, <3>3
  <2> QED
    BY <2>2, <2>4, <2>5
<1> QED
  BY <1>6, <1>7

-----------------------------------------------------------------------------
(* The steps of the list.                                                  *)

LEMMA SelectedRows ==
  ASSUME RowsInv, NEW f
  PROVE  Matching(f) \subseteq DOMAIN status /\ IsFiniteSet(Matching(f))
<1>1. Matching(f) \subseteq DOMAIN status
  BY DEF Matching, Selected
<1> QED
  BY <1>1, FS_Subset DEF RowsInv

LEMMA RowsAreTimed ==
  ASSUME RowsInv, TimesInv
  PROVE  /\ DOMAIN status \subseteq DOMAIN newer
         /\ \A e \in Editors : e \notin DOMAIN status /\ (e \in DOMAIN newer <=> write[e].sent)
         /\ DOMAIN status \cap Editors = {}
  BY ListingAssumption DEF RowsInv, TimesInv, Sent

(* A step that leaves the rows alone, and their order, leaves the walk     *)
(* where it is, or puts it back before the statements of its page.         *)
LEMMA WalkStays ==
  ASSUME LInv, UNCHANGED status, walk' = walk \/ walk' = AskAgain,
         \A q \in DOMAIN status :
           DOMAIN status \cap newer'[q] = DOMAIN status \cap newer[q]
  PROVE  WalkTypeOK' /\ WalkInv'
<1>1. \A f : Matching(f)' = Matching(f)
  BY DEF Matching, Selected
<1>2. \A f : \A q \in Matching(f) : Matching(f) \cap newer'[q] = Matching(f) \cap newer[q]
  BY SelectedRows DEF LInv
<1>3. \A f : \A q \in Matching(f) : Place(q, Matching(f), newer)' = Place(q, Matching(f), newer)
  BY <1>1, <1>2 DEF Place
<1>4. /\ walk'.filter = walk.filter /\ walk'.missing = walk.missing
      /\ walk'.offset = walk.offset /\ walk'.limit = walk.limit
      /\ \/ walk'.pc = walk.pc /\ walk'.total = walk.total
         \/ walk'.pc = "ask" /\ walk.pc = "find"
      /\ WalkTypeOK'
  <2>1. CASE walk' = walk
    BY <2>1 DEF LInv, WalkTypeOK
  <2>2. CASE walk' = [walk EXCEPT !.pc = "ask", !.total = 0] /\ walk.pc = "find"
    BY <2>2 DEF LInv, WalkTypeOK
  <2> QED
    BY <2>1, <2>2 DEF AskAgain
<1>5. WalkInv'
  BY <1>1, <1>3, <1>4 DEF LInv, WalkInv
<1> QED
  BY <1>4, <1>5

LEMMA SendStep ==
  ASSUME LInv, NEW e \in Editors, ~write[e].sent,
         NEW w \in [post : Posts, status : Statuses, sent : BOOLEAN], Send(e, w)
  PROVE  LInv'
<1> DEFINE sending == [w EXCEPT !.sent = TRUE]
<1>1. /\ UNCHANGED <<status, walk>>
      /\ newer' = [x \in DOMAIN newer \cup {e} |-> IF x = e THEN {} ELSE newer[x] \cup {e}]
      /\ write' = [write EXCEPT ![e] = sending]
  BY DEF Send
<1>2. e \notin DOMAIN newer /\ e \notin DOMAIN status
  BY RowsAreTimed DEF LInv
<1>3. sending \in [post : Posts, status : Statuses, sent : BOOLEAN] /\ sending.sent
  OBVIOUS
<1> HIDE DEF sending
<1>4. RowsInv'
  BY <1>1, <1>3 DEF LInv, RowsInv
<1>5. Sent' = Sent \cup {e}
  BY <1>1, <1>3 DEF LInv, RowsInv, Sent
<1>6. DOMAIN newer' = DOMAIN newer \cup {e}
  BY <1>1
<1>7. Ordered(newer')
  BY <1>1, <1>2, TimesLater DEF LInv, TimesInv
<1>8. TimesInv'
  BY <1>1, <1>5, <1>6, <1>7 DEF LInv, TimesInv
<1>9. \A q \in DOMAIN status : newer'[q] = newer[q] \cup {e}
  BY <1>1, <1>2, RowsAreTimed DEF LInv
<1>10. WalkTypeOK' /\ WalkInv'
  BY <1>1, <1>2, <1>9, WalkStays
<1> QED
  BY <1>4, <1>8, <1>10 DEF LInv

LEMMA NoWriteUnsent == ~NoWrite.sent
  BY DEF NoWrite

LEMMA CreateOrPublishStep ==
  ASSUME LInv, NEW e \in Editors, NEW p \in Posts, CreatePost(e, p) \/ UpdateStatus(e, p)
  PROVE  LInv'
<1>1. ~write[e].sent
  BY NoWriteUnsent DEF CreatePost, UpdateStatus
<1>2. PICK s \in Statuses : Send(e, [NoWrite EXCEPT !.post = p, !.status = s])
  BY DEF CreatePost, UpdateStatus, Statuses
<1>3. [NoWrite EXCEPT !.post = p, !.status = s] \in [post : Posts, status : Statuses, sent : BOOLEAN]
  BY DEF NoWrite
<1> QED
  BY <1>1, <1>2, <1>3, SendStep

LEMMA UpdatePostStep ==
  ASSUME LInv, NEW e \in Editors, UpdatePost(e)
  PROVE  LInv'
<1>1. ~write[e].sent /\ Send(e, write[e])
  BY DEF UpdatePost
<1>2. write[e] \in [post : Posts, status : Statuses, sent : BOOLEAN]
  BY DEF UpdatePost, LInv, RowsInv
<1> QED
  BY <1>1, <1>2, SendStep

LEMMA FindExistingStep ==
  ASSUME LInv, NEW e \in Editors, NEW p \in Posts, FindExisting(e, p)
  PROVE  LInv'
<1> DEFINE found == [post |-> p, status |-> status[p], sent |-> FALSE]
<1>1. /\ write[e] = NoWrite /\ UNCHANGED <<status, newer, walk>> /\ status[p] \in Statuses
      /\ write' = [write EXCEPT ![e] = found]
  BY DEF FindExisting, LInv, RowsInv
<1>2. found \in [post : Posts, status : Statuses, sent : BOOLEAN] /\ ~found.sent
  BY <1>1
<1> HIDE DEF found
<1>3. RowsInv'
  BY <1>1, <1>2 DEF LInv, RowsInv
<1>4. Sent' = Sent
  BY <1>1, <1>2, NoWriteUnsent DEF LInv, RowsInv, Sent
<1>5. TimesInv'
  BY <1>1, <1>4 DEF LInv, TimesInv
<1>6. WalkTypeOK' /\ WalkInv'
  BY <1>1, WalkStays
<1> QED
  BY <1>3, <1>5, <1>6 DEF LInv

(* Statements fail, one or all: their times are gone.                      *)
LEMMA TimesGoStep ==
  ASSUME LInv, UNCHANGED status, walk' = walk \/ walk' = AskAgain,
         NEW E \in SUBSET Editors,
         write' = [e \in Editors |-> IF e \in E THEN NoWrite ELSE write[e]],
         newer' = TimesOf(DOMAIN newer \ E)
  PROVE  LInv'
<1> DEFINE T == DOMAIN newer \ E
<1>1. RowsInv'
  BY DEF LInv, RowsInv
<1>2. Ordered(newer') /\ DOMAIN newer' = T /\ \A x \in T : newer'[x] = newer[x] \cap T
  BY TimesLeft DEF LInv, TimesInv
<1>3. \A e \in E : e \notin DOMAIN status
  BY RowsAreTimed DEF LInv
<1>4. Sent' = Sent \ E
  BY NoWriteUnsent DEF Sent
<1>5. TimesInv'
  BY <1>2, <1>3, <1>4 DEF LInv, TimesInv
<1>6. DOMAIN status \subseteq T
  BY <1>3, RowsAreTimed DEF LInv
<1>7. \A q \in DOMAIN status : DOMAIN status \cap newer'[q] = DOMAIN status \cap newer[q]
  BY <1>2, <1>6
<1>8. WalkTypeOK' /\ WalkInv'
  BY <1>7, WalkStays
<1> QED
  BY <1>1, <1>5, <1>8 DEF LInv

LEMMA FailStep ==
  ASSUME LInv, NEW e \in Editors, FailWrite(e)
  PROVE  LInv'
<1>1. write' = [x \in Editors |-> IF x \in {e} THEN NoWrite ELSE write[x]]
  BY DEF FailWrite, LInv, RowsInv
<1> QED
  BY <1>1, TimesGoStep DEF FailWrite

LEMMA EndStep ==
  ASSUME LInv, End
  PROVE  LInv'
<1>1. DOMAIN status = DOMAIN newer \ Editors
  BY RowsAreTimed DEF LInv, TimesInv, Sent
<1>2. write' = [x \in Editors |-> IF x \in Editors THEN NoWrite ELSE write[x]]
  BY DEF End
<1> QED
  BY <1>1, <1>2, TimesGoStep DEF End

(* The one step that moves rows.                                           *)
LEMMA EndWriteStep ==
  ASSUME LInv, NEW e \in Editors, EndWrite(e)
  PROVE  LInv'
<1> DEFINE p == write[e].post
           f == walk.filter
           old == Matching(f)
<1>1. /\ write[e].sent
      /\ status' = [x \in DOMAIN status \cup {p} |->
                      IF x = p THEN write[e].status ELSE status[x]]
      /\ newer' = TimesAfter(e, p) /\ walk' = Watched(p, status', newer')
      /\ write' = [write EXCEPT ![e] = NoWrite]
  BY DEF EndWrite
<1>2. write[e] \in [post : Posts, status : Statuses, sent : BOOLEAN]
  BY <1>1, NoWriteUnsent DEF LInv, RowsInv
<1>3. p \in Posts /\ write[e].status \in Statuses /\ p # e /\ e \in DOMAIN newer
  BY <1>1, <1>2, RowsAreTimed, ListingAssumption DEF LInv
<1>4. RowsInv'
  <2>1. DOMAIN status' = DOMAIN status \cup {p}
    BY <1>1
  <2>2. IsFiniteSet(DOMAIN status')
    BY <2>1, FS_AddElement DEF LInv, RowsInv
  <2> QED
    BY <1>1, <1>3, <2>1, <2>2 DEF LInv, RowsInv
<1>5. /\ Ordered(newer') /\ DOMAIN newer' = (DOMAIN newer \ {e}) \cup {p}
      /\ \A x, y \in DOMAIN newer \ {e, p} : x \in newer'[y] <=> x \in newer[y]
  BY <1>1, <1>3, TimeTaken DEF LInv, TimesInv
<1>6. Sent' = Sent \ {e}
  BY <1>1, NoWriteUnsent DEF LInv, RowsInv, Sent
<1>7. TimesInv'
  <2>1. e \notin DOMAIN status /\ DOMAIN status' = DOMAIN status \cup {p}
    BY <1>1, RowsAreTimed DEF LInv
  <2> QED
    BY <1>3, <1>5, <1>6, <2>1 DEF LInv, TimesInv
<1> DEFINE new == Selected(f, status')
           slippedOff == /\ p \in old /\ Place(p, old, newer) < walk.offset
                         /\ ~(p \in new /\ Place(p, new, newer') < walk.offset)
           uncounted == p \in new \ old /\ walk.pc = "find"
           left == IF slippedOff \/ uncounted THEN {} ELSE walk.missing \ {p}
<1>8. walk' = [walk EXCEPT !.missing = left]
  BY <1>1 DEF Watched
<1>9. /\ walk'.filter = f /\ walk'.offset = walk.offset /\ walk'.pc = walk.pc
      /\ walk'.total = walk.total /\ walk'.missing = left
  BY <1>8 DEF LInv, WalkTypeOK
<1>10. left \subseteq walk.missing \ {p} /\ (left # {} => ~slippedOff /\ ~uncounted)
  OBVIOUS
<1>11. WalkTypeOK'
  BY <1>8, <1>10 DEF LInv, WalkTypeOK
<1>12. Matching(walk.filter)' = new
  BY <1>9 DEF Matching
<1>13. new \ {p} = old \ {p}
  BY <1>1 DEF Matching, Selected
<1>14. old \subseteq DOMAIN status /\ IsFiniteSet(old)
  BY SelectedRows DEF LInv
<1>15. new \subseteq DOMAIN status' /\ IsFiniteSet(new)
  <2>1. new \subseteq DOMAIN status'
    BY DEF Selected
  <2> QED
    BY <1>4, <2>1, FS_Subset DEF RowsInv
<1>16. old \subseteq DOMAIN newer /\ new \subseteq DOMAIN newer' /\ e \notin old
  BY <1>7, <1>14, <1>15, RowsAreTimed DEF LInv, TimesInv
<1> HIDE DEF new
<1>17. ASSUME NEW q \in left
       PROVE  q \in new /\ walk.offset <= Place(q, new, newer')
  <2>1. q \in walk.missing /\ q # p /\ ~slippedOff
    BY <1>10
  <2> HIDE DEF left
  <2>2. q \in old /\ walk.offset <= Place(q, old, newer) /\ walk.offset \in Nat
    BY <2>1 DEF LInv, WalkInv, WalkTypeOK
  <2>3. q \in new
    BY <1>13, <2>1, <2>2
  <2>4. \A x \in old \ {p} : x \in newer'[q] <=> x \in newer[q]
    BY <1>5, <1>16, <2>1, <2>2
  <2>5. Place(p, old, newer) \in Nat
    BY <1>14, PlaceIsCount
  <2>6. \/ p \notin old
        \/ walk.offset <= Place(p, old, newer)
        \/ p \in new /\ Place(p, new, newer') < walk.offset
    BY <2>1, <2>2, <2>5
  <2> HIDE DEF slippedOff, old, p
  <2>7. Ordered(newer) /\ Ordered(newer')
    BY <1>5 DEF LInv, TimesInv
  <2>8. walk.offset <= Place(q, new, newer')
    BY <1>13, <1>14, <1>15, <1>16, <2>1, <2>2, <2>4, <2>6, <2>7, KeepsPlace
  <2> QED
    BY <2>3, <2>8
<1>18. ASSUME walk.pc = "find", left # {}
       PROVE  Cardinality(new) <= walk.total
  <2>1. Cardinality(old) <= walk.total /\ walk.total \in Nat
    BY <1>10, <1>18 DEF LInv, WalkInv, WalkTypeOK
  <2>2. p \notin new \ old
    BY <1>10, <1>18
  <2>3. new \subseteq old
    BY <1>13, <2>2
  <2>4. Cardinality(new) <= Cardinality(old) /\ Cardinality(new) \in Nat
        /\ Cardinality(old) \in Nat
    BY <1>14, <1>15, <2>3, FS_Subset, FS_CardinalityType
  <2> QED
    BY <2>1, <2>4
<1>19. walk.pc \in {"idle", "done"} => left = {}
  BY <1>10 DEF LInv, WalkInv
<1> HIDE DEF left, old
<1>20. WalkInv'
  BY <1>9, <1>12, <1>17, <1>18, <1>19 DEF WalkInv
<1> QED
  BY <1>4, <1>7, <1>11, <1>20 DEF LInv

LEMMA LimitAnsweredInRange ==
  ASSUME NEW asked \in Asked
  PROVE  LimitAnswered(asked) \in 1..MaxLimit
  BY ListingAssumption DEF LimitAnswered, Clamp, ParseInt

LEMMA BeginWalkStep ==
  ASSUME LInv, NEW f \in Filters, NEW asked \in Asked, BeginWalk(f, asked)
  PROVE  LInv'
<1>1. UNCHANGED <<status, newer, write>>
  BY DEF BeginWalk
<1>2. walk' = [pc |-> "ask", filter |-> f, limit |-> LimitAnswered(asked), offset |-> 0,
               total |-> 0, missing |-> Matching(f)]
  BY DEF BeginWalk, NoWalk
<1>3. \A q \in Matching(f) : 0 <= Place(q, Matching(f), newer)
  <2>1. IsFiniteSet(Matching(f))
    BY SelectedRows DEF LInv
  <2>2. \A q \in Matching(f) : Place(q, Matching(f), newer) \in Nat
    BY <2>1, PlaceIsCount
  <2> QED
    BY <2>2
<1>4. Matching(f) \subseteq Posts
  BY SelectedRows DEF LInv, RowsInv
<1>5. WalkTypeOK'
  BY <1>2, <1>4, LimitAnsweredInRange DEF WalkTypeOK
<1>6. Matching(walk.filter)' = Matching(f)
  BY <1>1, <1>2 DEF Matching
<1>7. WalkInv'
  BY <1>1, <1>2, <1>3, <1>6 DEF WalkInv
<1> QED
  BY <1>1, <1>5, <1>7 DEF LInv, RowsInv, TimesInv, Sent

LEMMA CountStep ==
  ASSUME LInv, CountPosts
  PROVE  LInv'
<1> DEFINE all == Matching(walk.filter)
<1>1. /\ UNCHANGED <<status, newer, write>>
      /\ walk' = [walk EXCEPT !.pc = "find", !.total = Cardinality(all)]
  BY DEF CountPosts
<1>2. Cardinality(all) \in Nat
  BY SelectedRows, FS_CardinalityType DEF LInv
<1>3. Matching(walk.filter)' = all
  BY <1>1 DEF Matching, LInv, WalkTypeOK
<1> HIDE DEF all
<1>4. WalkTypeOK'
  BY <1>1, <1>2 DEF LInv, WalkTypeOK
<1>5. /\ walk'.pc = "find" /\ walk'.total = Cardinality(all) /\ walk'.missing = walk.missing
      /\ walk'.offset = walk.offset
  BY <1>1 DEF LInv, WalkTypeOK
<1>6. WalkInv'
  BY <1>1, <1>2, <1>3, <1>5 DEF LInv, WalkInv, all
<1> QED
  BY <1>1, <1>4, <1>6 DEF LInv, RowsInv, TimesInv, Sent

(* A page shows all that is missing within its rows; if the total says it  *)
(* is the last, that is all.                                               *)
LEMMA FindStep ==
  ASSUME LInv, FindPosts
  PROVE  LInv'
<1> DEFINE all == Matching(walk.filter)
           page == Page(all, newer, RowLimit(walk.limit), walk.offset)
           next == walk.offset + walk.limit
<1>1. /\ UNCHANGED <<status, newer, write>> /\ walk.pc = "find"
      /\ walk' = [walk EXCEPT !.pc = IF next >= walk.total THEN "done" ELSE "ask",
                              !.offset = next, !.total = 0, !.missing = @ \ page]
  BY DEF FindPosts
<1>2. walk.limit \in 1..MaxLimit /\ walk.offset \in Nat /\ walk.total \in Nat
  BY DEF LInv, WalkTypeOK
<1>3. RowLimit(walk.limit) = walk.limit /\ next \in Nat
  BY <1>2, ListingAssumption DEF RowLimit
<1>4. all \subseteq DOMAIN newer /\ IsFiniteSet(all) /\ Ordered(newer)
  BY SelectedRows, RowsAreTimed DEF LInv, TimesInv
<1>5. Matching(walk.filter)' = all
  BY <1>1 DEF Matching, LInv, WalkTypeOK
<1>6. /\ walk'.pc = IF next >= walk.total THEN "done" ELSE "ask"
      /\ walk'.offset = next /\ walk'.missing = walk.missing \ page
  BY <1>1 DEF LInv, WalkTypeOK
<1>7. WalkTypeOK'
  BY <1>1, <1>3 DEF LInv, WalkTypeOK
<1>8. ASSUME NEW q \in walk.missing \ page
      PROVE  q \in all /\ next <= Place(q, all, newer)
  <2>1. q \in all /\ walk.offset <= Place(q, all, newer)
    BY DEF LInv, WalkInv
  <2>2. Place(q, all, newer) \in Nat
    BY <1>4, PlaceIsCount
  <2>3. Place(q, all, newer) \notin walk.offset..(walk.offset + walk.limit - 1)
    BY <1>3, <2>1 DEF Page
  <2> QED
    BY <1>2, <2>1, <2>2, <2>3
<1>9. ASSUME next >= walk.total
      PROVE  walk.missing \ page = {}
  <2> SUFFICES ASSUME NEW q \in walk.missing \ page PROVE FALSE
    OBVIOUS
  <2>1. q \in all /\ next <= Place(q, all, newer)
    BY <1>8
  <2>2. Place(q, all, newer) < Cardinality(all)
    BY <1>4, <2>1, PlaceOnList
  <2>3. Cardinality(all) <= walk.total
    BY <1>1 DEF LInv, WalkInv
  <2>4. Place(q, all, newer) \in Nat /\ Cardinality(all) \in Nat
    BY <1>4, PlaceIsCount, FS_CardinalityType
  <2> HIDE DEF all, next
  <2> QED
    BY <1>2, <1>3, <1>9, <2>1, <2>2, <2>3, <2>4
<1> HIDE DEF all, next, page
<1>10. WalkInv'
  BY <1>1, <1>5, <1>6, <1>8, <1>9 DEF WalkInv
<1> QED
  BY <1>1, <1>7, <1>10 DEF LInv, RowsInv, TimesInv, Sent

LEMMA NoWalkTyped ==
  NoWalk \in [pc : {"idle", "ask", "find", "done"}, filter : Filters \cup {""},
              limit : 1..MaxLimit, offset : Nat, total : Nat, missing : SUBSET Posts]
<1>1. DefaultLimit \in 1..MaxLimit
  BY ListingAssumption
<1> QED
  BY <1>1 DEF NoWalk

LEMMA EndWalkStep ==
  ASSUME LInv, EndWalk
  PROVE  LInv'
<1>1. UNCHANGED <<status, newer, write>> /\ walk' = NoWalk
  BY DEF EndWalk
<1>2. WalkTypeOK'
  BY <1>1, NoWalkTyped DEF WalkTypeOK
<1>3. WalkInv'
  BY <1>1 DEF WalkInv, NoWalk
<1> QED
  BY <1>1, <1>2, <1>3 DEF LInv, RowsInv, TimesInv, Sent

LEMMA ListStays ==
  ASSUME LInv, UNCHANGED <<status, newer, write>>, walk' = walk \/ walk' = AskAgain
  PROVE  LInv'
<1>1. WalkTypeOK' /\ WalkInv'
  BY WalkStays
<1> QED
  BY <1>1 DEF LInv, RowsInv, TimesInv, Sent

LEMMA ListStart == ContentInit => LInv
<1> SUFFICES ASSUME ContentInit PROVE LInv
  OBVIOUS
<1>1. /\ status = [p \in {} |-> "draft"] /\ newer = [x \in {} |-> {}]
      /\ write = [e \in Editors |-> NoWrite] /\ walk = NoWalk
  BY DEF ContentInit, ListInit
<1>2. RowsInv /\ TimesInv
  BY <1>1, FS_EmptySet, NoWriteUnsent DEF RowsInv, TimesInv, Ordered, Sent
<1>3. WalkTypeOK
  BY <1>1, NoWalkTyped DEF WalkTypeOK
<1>4. WalkInv
  BY <1>1 DEF WalkInv, NoWalk
<1> QED
  BY <1>2, <1>3, <1>4 DEF LInv

LEMMA ListStep ==
  ASSUME LInv, [ContentNext]_contentVars
  PROVE  LInv'
<1>1. ASSUME NEW env \in Environments, Start(env) PROVE LInv'
  BY <1>1, ListStays DEF Start, listVars
<1>2. CASE OpenDatabase \/ Listen \/ Signal \/ Shutdown
  BY <1>2, ListStays DEF OpenDatabase, Listen, Signal, Shutdown, listVars
<1>3. CASE ExitOnError \/ Drained \/ DeadlineExceeded \/ Crash
  BY <1>3, EndStep DEF ExitOnError, Drained, DeadlineExceeded, Crash
<1>4. ASSUME NEW e \in Editors, Write(e) PROVE LInv'
  BY <1>4, CreateOrPublishStep, FindExistingStep DEF Write
<1>5. CASE List
  BY <1>5, CountStep DEF List
<1>6. CASE Finish
  BY <1>6, FindStep, UpdatePostStep, EndWriteStep, FailStep DEF Finish
<1>7. CASE ListFails
  BY <1>7, ListStays DEF ListFails
<1>8. CASE \E kind \in Kinds, size \in Sizes, fault \in Faults : Upload(kind, size, fault)
  BY <1>8, ListStays DEF Upload, listVars
<1>9. CASE \E applied, succeeded \in BOOLEAN : Put(applied, succeeded)
  BY <1>9, ListStays DEF Put, listVars
<1>10. CASE Client
  BY <1>10, BeginWalkStep, EndWalkStep, ListStays DEF Client, listVars
<1>11. CASE UNCHANGED contentVars
  BY <1>11, ListStays DEF contentVars, listVars
<1> QED
  BY <1>1, <1>2, <1>3, <1>4, <1>5, <1>6, <1>7, <1>8, <1>9, <1>10, <1>11 DEF ContentNext

-----------------------------------------------------------------------------
(* Theorems about the list.                                                *)

(* A client that walks to the end of GET /posts, a page at a time by the   *)
(* limit it is told, has been shown every article that was on the list all *)
(* the while and was not written to, for any number of articles, editors   *)
(* and pages, statements that fail and processes that end, unless an       *)
(* article it had passed slipped back or one joined uncounted.             *)
THEOREM WalksAreComplete == ContentSpec => []WalkComplete
<1>1. LInv => WalkComplete
  BY DEF LInv, WalkInv, WalkComplete
<1> QED
  BY <1>1, ListStart, ListStep, PTL DEF ContentSpec

(* The process serves only by a configuration that Load accepts.           *)
CfgInv == phase \in Phases /\ signalled \in BOOLEAN /\ (Accepts(cfg) \/ phase = "down")

LEMMA CfgStep ==
  ASSUME CfgInv, [ContentNext]_contentVars
  PROVE  CfgInv'
<1>1. ASSUME NEW env \in Environments, Start(env) PROVE CfgInv'
  BY <1>1 DEF Start, CfgInv, Phases
<1>2. CASE OpenDatabase \/ Listen \/ Signal \/ Shutdown
  BY <1>2 DEF OpenDatabase, Listen, Signal, Shutdown, CfgInv, Phases
<1>3. CASE ExitOnError \/ Drained \/ DeadlineExceeded \/ Crash
  BY <1>3 DEF ExitOnError, Drained, DeadlineExceeded, Crash, End, CfgInv, Phases
<1>4. CASE (\E e \in Editors : Write(e)) \/ List \/ Finish \/ ListFails
  BY <1>4 DEF Write, List, Finish, ListFails, serverVars, CfgInv
<1>5. CASE \/ \E kind \in Kinds, size \in Sizes, fault \in Faults : Upload(kind, size, fault)
           \/ \E applied, succeeded \in BOOLEAN : Put(applied, succeeded)
           \/ Client
  BY <1>5 DEF Upload, Put, Client, CfgInv
<1>6. CASE UNCHANGED contentVars
  BY <1>6 DEF contentVars, serverVars, CfgInv
<1> QED
  BY <1>1, <1>2, <1>3, <1>4, <1>5, <1>6 DEF ContentNext

(* The types of the state, for any constants: the limit a walk goes by is  *)
(* one the repository will not put another in the place of, whatever was   *)
(* asked for, and a process is up only by a configuration it accepts.      *)
THEOREM ContentTypes == ContentSpec => []ContentTypeOK
<1>1. ContentInit => CfgInv
  BY DEF ContentInit, CfgInv, Phases
<1>2. ContentInit => UInv
  BY NoUploadInv DEF ContentInit, UInv
<1>3. LInv => ListTypeOK
  <2> SUFFICES ASSUME LInv PROVE ListTypeOK
    OBVIOUS
  <2>1. write \in [Editors -> [post : Posts \cup {NULL},
                               status : {"draft", "published", NULL}, sent : BOOLEAN]]
    <3> DEFINE W == [post : Posts \cup {NULL}, status : {"draft", "published", NULL},
                     sent : BOOLEAN]
    <3>1. NoWrite \in W
      BY DEF NoWrite
    <3>2. [post : Posts, status : Statuses, sent : BOOLEAN] \subseteq W
      BY DEF Statuses
    <3> HIDE DEF W
    <3>3. write \in [Editors -> W]
      BY <3>1, <3>2 DEF LInv, RowsInv
    <3> QED
      BY <3>3 DEF W
  <2> QED
    BY <2>1 DEF LInv, RowsInv, TimesInv, WalkTypeOK, ListTypeOK, Ordered, Statuses
<1>4. LInv /\ UInv /\ CfgInv => ContentTypeOK
  BY <1>3 DEF UInv, CfgInv, ContentTypeOK
<1> QED
  BY <1>1, <1>2, <1>4, ListStart, ListStep, UploadStep, CfgStep, PTL DEF ContentSpec
=============================================================================
