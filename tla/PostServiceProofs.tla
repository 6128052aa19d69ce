------------------------- MODULE PostServiceProofs -------------------------
(***************************************************************************)
(* Proofs about PostService, for any posts, slugs, texts and editors, any  *)
(* outcome of every call and any number of crashes.                        *)
(*                                                                         *)
(* What a row promises is kept by requests that have read or written part  *)
(* of it some time ago, so IInv says what each of them still holds true of *)
(* its article: an object once stored is never taken away, and the pair of *)
(* status and date a request carries is one a row may have.                *)
(***************************************************************************)
EXTENDS PostService, TLAPS

(* A status and a date that go together.                                   *)
Coherent(status, publishedAt) == status = "published" <=> publishedAt # NULL

(* What a request's local variables are worth at each of its steps.        *)
Knows(q) ==
  /\ q.pc \in {"putSource", "putRendered", "create", "findExisting", "update"}
       => q.id \in Posts /\ q.slug \in Slugs /\ q.text \in Texts
  /\ q.pc \in {"putRendered", "create"} => source[q.id] # NULL
  /\ q.pc = "create" => rendered[q.id] # NULL
  /\ q.pc \in {"putSource", "putRendered", "create", "updateStatus", "update"}
       => q.status \in {"draft", "published"} /\ Coherent(q.status, q.publishedAt)
  /\ q.pc \in {"findExisting", "updateStatus", "reread"} => q.id \in Posts

RequestsKnow == \A e \in Editors : Knows(req[e])

IInv == TypeOK /\ RowsHaveObjects /\ DatedIffPublished /\ RequestsKnow

-----------------------------------------------------------------------------
(* Objects are only ever written.                                          *)

Stays(old, new) == \A p \in Posts : old[p] # NULL => new[p] # NULL

(* A request's step that leaves the rows and the clock alone.              *)
LEMMA EditorStep ==
  ASSUME IInv, NEW e \in Editors, NEW q \in Request,
         req' = [req EXCEPT ![e] = q],
         UNCHANGED <<posts, reader, clock>>,
         source' \in [Posts -> Texts \cup {NULL}],
         rendered' \in [Posts -> HTML \cup {NULL}],
         Stays(source, source'), Stays(rendered, rendered'),
         Knows(q)'
  PROVE  IInv'
<1>1. TypeOK'
  BY DEF IInv, TypeOK
<1>2. RowsHaveObjects'
  BY DEF IInv, RowsHaveObjects, Stays, TypeOK
<1>3. DatedIffPublished'
  BY DEF IInv, DatedIffPublished
<1>4. RequestsKnow'
  <2> SUFFICES ASSUME NEW x \in Editors PROVE Knows(req[x])'
    BY DEF RequestsKnow
  <2>1. CASE x = e
    BY <2>1 DEF IInv, TypeOK, Knows
  <2>2. CASE x # e
    <3>1. req'[x] = req[x] /\ Knows(req[x])
      BY <2>2 DEF IInv, TypeOK, RequestsKnow
    <3> QED
      BY <3>1 DEF Knows, Stays
  <2> QED
    BY <2>1, <2>2
<1> QED
  BY <1>1, <1>2, <1>3, <1>4 DEF IInv

(* A request may end at any of its steps.                                  *)
LEMMA IdleKnows == Idle \in Request /\ Knows(Idle) /\ Knows(Idle)'
  BY DEF Idle, Request, PCs, Knows

(* A request's step that writes rows and leaves the objects alone.         *)
LEMMA RowStep ==
  ASSUME IInv, NEW e \in Editors, NEW q \in Request,
         req' = [req EXCEPT ![e] = q],
         UNCHANGED <<source, rendered, reader, clock>>,
         DOMAIN posts' \subseteq Posts,
         posts' \in [DOMAIN posts' -> Post],
         RowsHaveObjects', DatedIffPublished',
         Knows(q)
  PROVE  IInv'
<1>1. TypeOK'
  BY DEF IInv, TypeOK
<1>2. RequestsKnow'
  <2> SUFFICES ASSUME NEW x \in Editors PROVE Knows(req[x])'
    BY DEF RequestsKnow
  <2>1. Knows(req'[x])
    BY DEF IInv, TypeOK, RequestsKnow
  <2> QED
    BY <2>1 DEF Knows
<1> QED
  BY <1>1, <1>2 DEF IInv

-----------------------------------------------------------------------------
(* There are no rows and no requests at first.                             *)
LEMMA InitInv == Init => IInv
<1> SUFFICES ASSUME Init PROVE IInv
  OBVIOUS
<1>1. DOMAIN posts = {}
  BY DEF Init
<1>2. TypeOK
  BY <1>1, IdleKnows DEF Init, TypeOK, ReadIdle
<1>3. RequestsKnow
  BY IdleKnows DEF Init, RequestsKnow
<1> QED
  BY <1>1, <1>2, <1>3 DEF IInv, RowsHaveObjects, DatedIffPublished

(* A save begins with what the editor sent.                                *)
LEMMA SaveDraftInv ==
  ASSUME IInv, NEW e \in Editors, NEW p \in Posts, NEW text \in Texts, NEW s \in Slugs,
         SaveDraft(e, p, text, s)
  PROVE  IInv'
<1>1. PICK new \in BOOLEAN :
        req' = [req EXCEPT ![e] = [pc |-> "putSource", isNew |-> new, id |-> p, slug |-> s,
                                   text |-> text, status |-> "draft", publishedAt |-> NULL]]
  BY DEF SaveDraft
<1> DEFINE q == [pc |-> "putSource", isNew |-> new, id |-> p, slug |-> s,
                 text |-> text, status |-> "draft", publishedAt |-> NULL]
<1>2. q \in Request
  BY DEF Request, PCs
<1>3. Knows(q)'
  BY NullAssumption DEF q, Knows, Coherent
<1>4. req' = [req EXCEPT ![e] = q] /\ UNCHANGED <<posts, source, rendered, reader, clock>>
  BY <1>1 DEF SaveDraft, q
<1>5. Stays(source, source') /\ Stays(rendered, rendered')
  BY <1>4 DEF Stays
<1> QED
  BY <1>2, <1>3, <1>4, <1>5, EditorStep DEF IInv, TypeOK

(* The two uploads.                                                        *)
LEMMA PutSourceInv ==
  ASSUME IInv, NEW e \in Editors, PutSource(e)
  PROVE  IInv'
<1> PICK o \in Outcomes :
      /\ source' = IF Applied(o) THEN [source EXCEPT ![req[e].id] = req[e].text] ELSE source
      /\ req' = IF Stored(o) THEN [req EXCEPT ![e].pc = "putRendered"]
                             ELSE [req EXCEPT ![e] = Idle]
  BY DEF PutSource
<1>1. /\ req[e] \in Request /\ req[e].pc = "putSource" /\ Knows(req[e])
      /\ UNCHANGED <<posts, rendered, reader, clock>>
  BY DEF PutSource, IInv, TypeOK, RequestsKnow
<1>2. req[e].id \in Posts /\ req[e].text \in Texts
  BY <1>1 DEF Knows
<1>3. /\ source' \in [Posts -> Texts \cup {NULL}]
      /\ Stays(source, source') /\ Stays(rendered, rendered')
      /\ rendered' \in [Posts -> HTML \cup {NULL}]
  BY <1>1, <1>2, NullAssumption DEF Stays, IInv, TypeOK
<1>4. CASE Stored(o)
  <2>1. PICK q \in Request :
          q = [req[e] EXCEPT !.pc = "putRendered"]
    BY <1>1 DEF Request, PCs
  <2>6. req' = [req EXCEPT ![e] = q]
    BY <1>1, <1>4, <2>1 DEF IInv, TypeOK
  <2>2. source'[req[e].id] # NULL
    BY <1>2, <1>4, NullAssumption DEF Stored, Succeeded, Applied, IInv, TypeOK
  <2>3. q.pc = "putRendered" /\ q.id = req[e].id /\ q.slug = req[e].slug
        /\ q.text = req[e].text /\ q.status = req[e].status
        /\ q.publishedAt = req[e].publishedAt
    BY <1>1, <2>1 DEF Request
  <2>4. Knows(req[e]) /\ Coherent(req[e].status, req[e].publishedAt)
    BY <1>1 DEF Knows
  <2>5. Knows(q)'
    BY <1>1, <2>2, <2>3, <2>4 DEF Knows, Coherent
  <2> QED
    BY <1>1, <1>3, <2>6, <2>5, EditorStep
<1>5. CASE ~Stored(o)
  BY <1>1, <1>3, <1>5, IdleKnows, EditorStep
<1> QED
  BY <1>4, <1>5

(* The page: the source is there already.                                  *)
LEMMA PutRenderedInv ==
  ASSUME IInv, NEW e \in Editors, PutRendered(e)
  PROVE  IInv'
<1> PICK o \in Outcomes :
      /\ rendered' = IF Applied(o) THEN [rendered EXCEPT ![req[e].id] = RenderedNow(req[e])]
                                   ELSE rendered
      /\ req' = IF Stored(o)
                  THEN [req EXCEPT ![e].pc = IF req[e].isNew THEN "create" ELSE "findExisting"]
                  ELSE [req EXCEPT ![e] = Idle]
  BY DEF PutRendered
<1>1. /\ req[e] \in Request /\ req[e].pc = "putRendered" /\ Knows(req[e])
      /\ UNCHANGED <<posts, source, reader, clock>>
  BY DEF PutRendered, IInv, TypeOK, RequestsKnow
<1>2. /\ req[e].id \in Posts /\ source[req[e].id] # NULL
      /\ RenderedNow(req[e]) \in HTML /\ RenderedNow(req[e]) # NULL
  BY <1>1, HTMLAssumption DEF Knows, RenderedNow, HTML
<1>3. /\ rendered' \in [Posts -> HTML \cup {NULL}]
      /\ Stays(source, source') /\ Stays(rendered, rendered')
      /\ source' \in [Posts -> Texts \cup {NULL}]
  BY <1>1, <1>2 DEF Stays, IInv, TypeOK
<1>4. CASE Stored(o)
  <2>1. PICK q \in Request :
          q = [req[e] EXCEPT !.pc = IF req[e].isNew THEN "create" ELSE "findExisting"]
    BY <1>1 DEF Request, PCs
  <2>6. req' = [req EXCEPT ![e] = q]
    BY <1>1, <1>4, <2>1 DEF IInv, TypeOK
  <2>2. rendered'[req[e].id] # NULL
    BY <1>2, <1>4 DEF Stored, Succeeded, Applied, IInv, TypeOK
  <2>3. q.pc \in {"create", "findExisting"} /\ q.id = req[e].id /\ q.slug = req[e].slug
        /\ q.text = req[e].text /\ q.status = req[e].status
        /\ q.publishedAt = req[e].publishedAt
    BY <1>1, <2>1 DEF Request
  <2>4. Knows(q)'
    BY <1>1, <1>2, <2>2, <2>3 DEF Knows, Coherent
  <2> QED
    BY <1>1, <1>3, <2>6, <2>4, EditorStep
<1>5. CASE ~Stored(o)
  BY <1>1, <1>3, <1>5, IdleKnows, EditorStep
<1> QED
  BY <1>4, <1>5

(* A new row is put over objects that are both there.                      *)
LEMMA CreatePostInv ==
  ASSUME IInv, NEW e \in Editors, CreatePost(e)
  PROVE  IInv'
<1>1. /\ req[e] \in Request /\ req[e].pc = "create" /\ Knows(req[e])
      /\ UNCHANGED <<source, rendered, reader, clock>>
      /\ req' = [req EXCEPT ![e] = Idle]
  BY DEF CreatePost, IInv, TypeOK, RequestsKnow
<1>2. PICK row \in Post : row = RowOf(req[e])
  BY <1>1 DEF Knows, Post, Request, RowOf
<1>3. PICK id \in Posts : id = req[e].id
  BY <1>1 DEF Knows
<1>4. Coherent(row.status, row.publishedAt) /\ source[id] # NULL /\ rendered[id] # NULL
  BY <1>1, <1>2, <1>3 DEF Knows, RowOf
<1>5. posts' = posts
      \/ posts' = [p \in DOMAIN posts \cup {id} |-> IF p = id THEN row ELSE posts[p]]
  BY <1>2, <1>3 DEF CreatePost
<1>6. DOMAIN posts' \subseteq Posts /\ posts' \in [DOMAIN posts' -> Post]
  BY <1>5 DEF IInv, TypeOK
<1>7. RowsHaveObjects'
  BY <1>1, <1>4, <1>5 DEF IInv, RowsHaveObjects
<1>8. DatedIffPublished'
  BY <1>4, <1>5 DEF IInv, DatedIffPublished, Coherent
<1> QED
  BY <1>1, <1>6, <1>7, <1>8, IdleKnows, RowStep

(* The status and the date are read from one row, so they go together.     *)
LEMMA FindExistingInv ==
  ASSUME IInv, NEW e \in Editors, FindExisting(e)
  PROVE  IInv'
<1>1. /\ req[e] \in Request /\ req[e].pc = "findExisting" /\ Knows(req[e])
      /\ UNCHANGED <<posts, source, rendered, reader, clock>>
      /\ DOMAIN posts \subseteq Posts /\ posts \in [DOMAIN posts -> Post]
      /\ RowsHaveObjects /\ DatedIffPublished
  BY DEF FindExisting, IInv, TypeOK, RequestsKnow
<1>2. RowsHaveObjects' /\ DatedIffPublished'
  BY <1>1 DEF RowsHaveObjects, DatedIffPublished
<1>3. CASE /\ req[e].id \in DOMAIN posts
           /\ req' = [req EXCEPT ![e].pc = "update",
                                 ![e].status = StatusKept(posts[req[e].id]),
                                 ![e].publishedAt = posts[req[e].id].publishedAt]
  <2>1. PICK row \in Post : row = posts[req[e].id]
    BY <1>1, <1>3
  <2>2. Coherent(row.status, row.publishedAt)
    BY <1>1, <1>3, <2>1 DEF DatedIffPublished, Coherent
  <2>3. PICK q \in Request : q = [req[e] EXCEPT !.pc = "update", !.status = row.status,
                                                !.publishedAt = row.publishedAt]
    BY <1>1 DEF Request, PCs, Post
  <2>4. req' = [req EXCEPT ![e] = q]
    BY <1>3, <2>1, <2>3 DEF StatusKept, IInv, TypeOK
  <2>5. q.pc = "update" /\ q.id = req[e].id /\ q.slug = req[e].slug /\ q.text = req[e].text
        /\ q.status = row.status /\ q.publishedAt = row.publishedAt
    BY <1>1, <2>3 DEF Request
  <2>6. Knows(q)
    BY <1>1, <2>2, <2>5 DEF Knows, Post
  <2> QED
    BY <1>1, <1>2, <2>4, <2>6, RowStep
<1>4. CASE req' = [req EXCEPT ![e] = Idle]
  BY <1>1, <1>2, <1>4, IdleKnows, RowStep
<1> QED
  BY <1>3, <1>4 DEF FindExisting

(* Both columns are written back together, however old they are by now.    *)
LEMMA UpdatePostInv ==
  ASSUME IInv, NEW e \in Editors, UpdatePost(e)
  PROVE  IInv'
<1>1. /\ req[e] \in Request /\ req[e].pc = "update" /\ Knows(req[e])
      /\ UNCHANGED <<source, rendered, reader, clock>>
      /\ req' = [req EXCEPT ![e] = Idle]
  BY DEF UpdatePost, IInv, TypeOK, RequestsKnow
<1>2. PICK row \in Post : row = RowOf(req[e])
  BY <1>1 DEF Knows, Post, Request, RowOf
<1>3. PICK id \in Posts : id = req[e].id
  BY <1>1 DEF Knows
<1>4. Coherent(row.status, row.publishedAt)
  BY <1>1, <1>2 DEF Knows, RowOf
<1>5. \/ posts' = posts
      \/ /\ id \in DOMAIN posts
         /\ posts' = [posts EXCEPT ![id] = row]
  BY <1>2, <1>3 DEF UpdatePost, DateWritten, RowOf
<1>6. DOMAIN posts' = DOMAIN posts /\ posts' \in [DOMAIN posts -> Post]
  BY <1>5 DEF IInv, TypeOK
<1>7. RowsHaveObjects'
  BY <1>1, <1>6 DEF IInv, RowsHaveObjects
<1>8. DatedIffPublished'
  BY <1>4, <1>5 DEF IInv, TypeOK, DatedIffPublished, Coherent
<1> QED
  BY <1>1, <1>6, <1>7, <1>8, IdleKnows, RowStep DEF IInv, TypeOK

-----------------------------------------------------------------------------
(* A publish carries a date: the row's, or the time.                       *)
LEMMA PublishInv ==
  ASSUME IInv, NEW e \in Editors, NEW p \in Posts, Publish(e, p)
  PROVE  IInv'
<1>1. /\ UNCHANGED <<posts, source, rendered, reader, clock>>
      /\ p \in DOMAIN posts /\ posts[p] \in Post /\ clock \in Nat
      /\ DOMAIN posts \subseteq Posts /\ posts \in [DOMAIN posts -> Post]
      /\ RowsHaveObjects /\ DatedIffPublished
  BY DEF Publish, IInv, TypeOK
<1>2. RowsHaveObjects' /\ DatedIffPublished'
  BY <1>1 DEF RowsHaveObjects, DatedIffPublished
<1>3. PICK date \in Nat : date = DateOnce(posts[p])
  BY <1>1 DEF DateOnce, Post
<1>4. PICK q \in Request : q = [Idle EXCEPT !.pc = "updateStatus", !.id = p,
                                           !.status = "published", !.publishedAt = date]
  BY DEF Idle, Request, PCs
<1>5. q.pc = "updateStatus" /\ q.id = p /\ q.status = "published" /\ q.publishedAt = date
  BY <1>4 DEF Idle
<1>6. Knows(q)
  BY <1>5, NullAssumption DEF Knows, Coherent
<1>7. req' = [req EXCEPT ![e] = q]
  BY <1>3, <1>4 DEF Publish
<1> QED
  BY <1>1, <1>2, <1>6, <1>7, RowStep

(* A publish writes its pair of status and date, whatever the row's is.    *)
LEMMA UpdateStatusInv ==
  ASSUME IInv, NEW e \in Editors, UpdateStatus(e)
  PROVE  IInv'
<1>1. /\ req[e] \in Request /\ req[e].pc = "updateStatus" /\ Knows(req[e])
      /\ UNCHANGED <<source, rendered, reader, clock>>
  BY DEF UpdateStatus, IInv, TypeOK, RequestsKnow
<1>2. PICK status \in {"draft", "published"}, date \in Nat \cup {NULL}, id \in Posts :
        /\ status = req[e].status /\ date = req[e].publishedAt /\ id = req[e].id
        /\ Coherent(status, date)
  BY <1>1 DEF Knows, Request
<1>3. \/ posts' = posts
      \/ /\ id \in DOMAIN posts
         /\ posts' = [posts EXCEPT ![id] = [posts[id] EXCEPT !.status = status,
                                                           !.publishedAt = date]]
  BY <1>2 DEF UpdateStatus, IInv, TypeOK
<1>4. DOMAIN posts' = DOMAIN posts /\ posts' \in [DOMAIN posts -> Post]
  BY <1>3 DEF IInv, TypeOK, Post
<1>5. RowsHaveObjects'
  BY <1>1, <1>4 DEF IInv, RowsHaveObjects
<1>6. DatedIffPublished'
  BY <1>2, <1>3 DEF IInv, TypeOK, DatedIffPublished, Coherent, Post
<1>7. PICK q \in Request : q = [req[e] EXCEPT !.pc = "reread"]
  BY <1>1 DEF Request, PCs
<1>8. Knows(q)
  <2>1. q.pc = "reread" /\ q.id = req[e].id
    BY <1>1, <1>7 DEF Request
  <2> QED
    BY <1>2, <2>1 DEF Knows
<1>9. req' = [req EXCEPT ![e] = q] \/ req' = [req EXCEPT ![e] = Idle]
  BY <1>7 DEF UpdateStatus, IInv, TypeOK
<1> QED
  BY <1>1, <1>4, <1>5, <1>6, <1>8, <1>9, IdleKnows, RowStep DEF IInv, TypeOK

(* The end of a publish changes no row.                                    *)
LEMMA AfterPublishInv ==
  ASSUME IInv, NEW e \in Editors, PublishReread(e) \/ Revalidate(e)
  PROVE  IInv'
<1>1. /\ UNCHANGED <<posts, source, rendered, reader, clock>>
      /\ req[e] \in Request
      /\ DOMAIN posts \subseteq Posts /\ posts \in [DOMAIN posts -> Post]
      /\ RowsHaveObjects /\ DatedIffPublished
  BY DEF PublishReread, Revalidate, IInv, TypeOK
<1>2. RowsHaveObjects' /\ DatedIffPublished'
  BY <1>1 DEF RowsHaveObjects, DatedIffPublished
<1>3. CASE /\ req[e].id \in DOMAIN posts
           /\ req' = [req EXCEPT ![e].pc = "revalidate", ![e].slug = posts[req[e].id].slug]
  <2>1. PICK q \in Request :
          q = [req[e] EXCEPT !.pc = "revalidate", !.slug = posts[req[e].id].slug]
    BY <1>1, <1>3 DEF Request, PCs, Post
  <2>2. q.pc = "revalidate"
    BY <1>1, <2>1 DEF Request
  <2>3. Knows(q)
    BY <2>2 DEF Knows
  <2>4. req' = [req EXCEPT ![e] = q]
    BY <1>3, <2>1 DEF IInv, TypeOK
  <2> QED
    BY <1>1, <1>2, <2>3, <2>4, RowStep
<1>4. CASE req' = [req EXCEPT ![e] = Idle]
  BY <1>1, <1>2, <1>4, IdleKnows, RowStep
<1> QED
  BY <1>3, <1>4 DEF PublishReread, Revalidate

(* Readers, time, and steps that change nothing at all.                    *)
LEMMA OthersInv ==
  ASSUME IInv, UNCHANGED <<posts, source, rendered, req>>,
         reader' \in [Readers -> [pc : {"idle", "get"}, id : Posts \cup {NULL},
                                  meta : Texts \cup {NULL}]],
         clock' \in Nat
  PROVE  IInv'
<1>1. TypeOK'
  BY DEF IInv, TypeOK
<1>2. RowsHaveObjects' /\ DatedIffPublished'
  BY DEF IInv, RowsHaveObjects, DatedIffPublished
<1>3. RequestsKnow'
  BY DEF IInv, RequestsKnow, Knows
<1> QED
  BY <1>1, <1>2, <1>3 DEF IInv

(* A crash ends every request and every read.                              *)
LEMMA CrashInv == IInv /\ Crash => IInv'
<1> SUFFICES ASSUME IInv, Crash PROVE IInv'
  OBVIOUS
<1>1. TypeOK'
  BY IdleKnows DEF IInv, TypeOK, Crash, ReadIdle
<1>2. RowsHaveObjects' /\ DatedIffPublished'
  BY DEF IInv, RowsHaveObjects, DatedIffPublished, Crash
<1>3. RequestsKnow'
  <2> SUFFICES ASSUME NEW e \in Editors PROVE Knows(req[e])'
    BY DEF RequestsKnow
  <2>1. req'[e].pc = "idle"
    BY DEF Crash, Idle
  <2> QED
    BY <2>1 DEF Knows
<1> QED
  BY <1>1, <1>2, <1>3 DEF IInv

(* Every step keeps the invariant.                                         *)
LEMMA NextInv == IInv /\ [Next]_vars => IInv'
<1> SUFFICES ASSUME IInv, [Next]_vars PROVE IInv'
  OBVIOUS
<1> USE DEF IInv
<1>1. ASSUME NEW e \in Editors, NEW p \in Posts, NEW text \in Texts, NEW s \in Slugs,
             SaveDraft(e, p, text, s)
      PROVE  IInv'
  BY <1>1, SaveDraftInv
<1>2. ASSUME NEW e \in Editors,
             PutSource(e) \/ PutRendered(e) \/ CreatePost(e) \/ FindExisting(e) \/ UpdatePost(e)
      PROVE  IInv'
  BY <1>2, PutSourceInv, PutRenderedInv, CreatePostInv, FindExistingInv, UpdatePostInv
<1>3. ASSUME NEW e \in Editors, NEW p \in Posts, Publish(e, p)
      PROVE  IInv'
  BY <1>3, PublishInv
<1>4. ASSUME NEW e \in Editors, UpdateStatus(e) \/ PublishReread(e) \/ Revalidate(e)
      PROVE  IInv'
  BY <1>4, UpdateStatusInv, AfterPublishInv
<1>5. ASSUME NEW v \in Readers, (\E s \in Slugs : FindPublishedBySlug(v, s)) \/ GetRendered(v)
      PROVE  IInv'
  <2>1. UNCHANGED <<posts, source, rendered, req, clock>>
    BY <1>5 DEF FindPublishedBySlug, GetRendered
  <2>2. reader' \in [Readers -> [pc : {"idle", "get"}, id : Posts \cup {NULL},
                                 meta : Texts \cup {NULL}]]
    BY <1>5 DEF FindPublishedBySlug, GetRendered, TypeOK, Post, ReadIdle
  <2> QED
    BY <2>1, <2>2, OthersInv DEF TypeOK
<1>6. CASE Tick
  BY <1>6, OthersInv DEF Tick, TypeOK
<1>7. CASE Crash
  BY <1>7, CrashInv
<1>8. CASE UNCHANGED vars
  BY <1>8, OthersInv DEF vars, TypeOK
<1> QED
  BY <1>1, <1>2, <1>3, <1>4, <1>5, <1>6, <1>7, <1>8 DEF Next

(* The invariant holds throughout.                                         *)
LEMMA Invariance == Spec => []IInv
<1>1. Init => IInv
  BY InitInv
<1>2. IInv /\ [Next]_vars => IInv'
  BY NextInv
<1> QED
  BY <1>1, <1>2, PTL DEF Spec

-----------------------------------------------------------------------------
(* The tables and the local variables of the requests are well typed: no   *)
(* interleaving, failure or crash puts a NULL where a value is needed.     *)
THEOREM PostTypesCorrect == Spec => []TypeOK
<1>1. IInv => TypeOK
  BY DEF IInv
<1> QED
  BY <1>1, Invariance, PTL

(* SaveDraft writes the objects before the row and takes none away: a row  *)
(* never names an object that is missing, whatever failed on the way.      *)
THEOREM RowsKeepTheirObjects == Spec => []RowsHaveObjects
<1>1. IInv => RowsHaveObjects
  BY DEF IInv
<1> QED
  BY <1>1, Invariance, PTL

(* Saves and publishes of one article may overwrite one another, but never *)
(* leave a published row without a date or a draft with one.               *)
THEOREM DatesStayCoherent == Spec => []DatedIffPublished
<1>1. IInv => DatedIffPublished
  BY DEF IInv
<1> QED
  BY <1>1, Invariance, PTL
=============================================================================
