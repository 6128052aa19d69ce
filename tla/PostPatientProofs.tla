------------------------- MODULE PostPatientProofs -------------------------
(***************************************************************************)
(* Proofs of what PostService promises patient editors, who have at most   *)
(* one request under way for an article (PatientSpec): any number of       *)
(* editors may write different articles.                                   *)
(*                                                                         *)
(* A save and a publish write back columns they have read before.  The     *)
(* columns are still what they were, because every step that writes a row  *)
(* is a step of a request for its article, and there is no other one.      *)
(***************************************************************************)
EXTENDS PostServiceProofs

(* What a request is about to write does no harm to the row it will find.  *)
Keeps(q) ==
  /\ q.pc = "create" \/ (q.pc \in {"putSource", "putRendered"} /\ q.isNew)
       => q.id \notin DOMAIN posts
  /\ q.pc = "update" /\ q.id \in DOMAIN posts =>
       q.status = posts[q.id].status /\ q.publishedAt = posts[q.id].publishedAt
  /\ q.pc = "updateStatus" /\ q.id \in DOMAIN posts =>
       /\ q.status = "published"
       /\ posts[q.id].publishedAt # NULL => q.publishedAt = posts[q.id].publishedAt

PatientInv == OneAtATime /\ \A e \in Editors : Keeps(req[e])

(* A step of request e, seen from the others: only the row of its own      *)
(* article is written.                                                     *)
Minds(e) ==
  /\ \A d \in Editors \ {e} : req'[d] = req[d]
  /\ \A p \in Posts \ {req[e].id} :
       /\ p \in DOMAIN posts' <=> p \in DOMAIN posts
       /\ p \in DOMAIN posts => posts'[p] = posts[p]

(* What no reader and no editor should see a step do to a row.             *)
RowKept(old, new) ==
  /\ old.status = "published" => new.status = "published"
  /\ old.publishedAt # NULL => new.publishedAt = old.publishedAt

RowsKept == \A p \in DOMAIN posts : p \in DOMAIN posts' /\ RowKept(posts[p], posts'[p])

-----------------------------------------------------------------------------
(* A slot that serves nothing writes nothing.                              *)
LEMMA IdleKeeps == Keeps(Idle) /\ Keeps(Idle)'
  BY DEF Keeps, Idle

(* Another request finds the row as it left it.                            *)
LEMMA OthersKeep ==
  ASSUME IInv, IInv', PatientInv, NEW e \in Editors, Minds(e), NEW d \in Editors \ {e}
  PROVE  Keeps(req[d])'
<1> DEFINE q == req[d]
<1>1. Keeps(q) /\ req'[d] = q /\ q.id \in Posts \cup {NULL}
  BY DEF IInv, TypeOK, PatientInv, Minds, Request
<1>2. DOMAIN posts \subseteq Posts /\ DOMAIN posts' \subseteq Posts
  BY DEF IInv, TypeOK
<1>3. q.id \notin Posts => q.id \notin DOMAIN posts'
  BY <1>2
<1>4. q.id \in Posts => q.id # req[e].id
  BY NullAssumption DEF PatientInv, OneAtATime
<1>5. CASE q.id \notin Posts
  BY <1>1, <1>3, <1>5 DEF Keeps
<1>6. CASE q.id \in Posts
  <2>1. /\ q.id \in DOMAIN posts' <=> q.id \in DOMAIN posts
        /\ q.id \in DOMAIN posts => posts'[q.id] = posts[q.id]
    BY <1>4, <1>6 DEF Minds
  <2> QED
    BY <1>1, <2>1 DEF Keeps
<1> QED
  BY <1>5, <1>6

(* Steps of a request before it writes a row.                              *)
LEMMA BeforeRow ==
  ASSUME IInv, NEW e \in Editors, Keeps(req[e]),
         \/ \E p \in Posts, text \in Texts, s \in Slugs : SaveDraft(e, p, text, s)
         \/ PutSource(e) \/ PutRendered(e)
  PROVE  UNCHANGED posts /\ Minds(e) /\ Keeps(req[e])'
<1>1. req \in [Editors -> Request] /\ req[e] \in Request /\ UNCHANGED posts
  BY DEF IInv, TypeOK, SaveDraft, PutSource, PutRendered
<1>2. \A d \in Editors \ {e} : req'[d] = req[d]
  BY <1>1 DEF SaveDraft, PutSource, PutRendered
<1>3. CASE \E p \in Posts, text \in Texts, s \in Slugs : SaveDraft(e, p, text, s)
  <2>1. /\ req'[e].pc = "putSource"
        /\ req'[e].isNew => req'[e].id \notin DOMAIN posts
    BY <1>1, <1>3 DEF SaveDraft, Fresh
  <2> QED
    BY <1>1, <1>2, <2>1 DEF Minds, Keeps
<1>4. CASE PutSource(e)
  <2>1. \/ req'[e] = Idle
        \/ /\ req'[e].pc = "putRendered" /\ req[e].pc = "putSource"
           /\ req'[e].isNew = req[e].isNew /\ req'[e].id = req[e].id
    BY <1>1, <1>4 DEF PutSource, Request
  <2>2. Keeps(req'[e])
    BY <2>1, IdleKeeps DEF Keeps
  <2> QED
    BY <1>1, <1>2, <2>2 DEF Minds, Keeps
<1>5. CASE PutRendered(e)
  <2>1. \/ req'[e] = Idle
        \/ /\ req[e].pc = "putRendered" /\ req'[e].id = req[e].id
           /\ \/ req'[e].pc = "create" /\ req[e].isNew
              \/ req'[e].pc = "findExisting"
    BY <1>1, <1>5 DEF PutRendered, Request
  <2>2. Keeps(req'[e])
    BY <2>1, IdleKeeps DEF Keeps
  <2> QED
    BY <1>1, <1>2, <2>2 DEF Minds, Keeps
<1> QED
  BY <1>3, <1>4, <1>5

(* A new row is not put over an old one.                                   *)
LEMMA CreateKeeps ==
  ASSUME IInv, NEW e \in Editors, Keeps(req[e]), CreatePost(e)
  PROVE  RowsKept /\ Minds(e) /\ Keeps(req[e])'
<1>1. /\ req \in [Editors -> Request] /\ req[e].id \notin DOMAIN posts
      /\ req' = [req EXCEPT ![e] = Idle]
  BY DEF IInv, TypeOK, Keeps, CreatePost
<1>2. \/ posts' = posts
      \/ posts' = [p \in DOMAIN posts \cup {req[e].id} |->
                     IF p = req[e].id THEN RowOf(req[e]) ELSE posts[p]]
  BY DEF CreatePost
<1>3. \A p \in DOMAIN posts : p \in DOMAIN posts' /\ posts'[p] = posts[p]
  BY <1>1, <1>2
<1>4. DOMAIN posts' \subseteq DOMAIN posts \cup {req[e].id}
  BY <1>2
<1> QED
  BY <1>1, <1>3, <1>4, IdleKeeps DEF RowsKept, RowKept, Minds

(* A save reads the status and the date of the row it will write.          *)
LEMMA FindExistingKeeps ==
  ASSUME IInv, NEW e \in Editors, FindExisting(e)
  PROVE  UNCHANGED posts /\ Minds(e) /\ Keeps(req[e])'
<1>1. req \in [Editors -> Request] /\ req[e] \in Request /\ UNCHANGED posts
  BY DEF IInv, TypeOK, FindExisting
<1>2. /\ \A d \in Editors \ {e} : req'[d] = req[d]
      /\ \/ req'[e] = Idle
         \/ /\ req'[e].pc = "update" /\ req'[e].id = req[e].id
            /\ req'[e].status = posts[req[e].id].status
            /\ req'[e].publishedAt = posts[req[e].id].publishedAt
  BY <1>1 DEF FindExisting, StatusKept, Request
<1>3. Keeps(req'[e])
  BY <1>2, IdleKeeps DEF Keeps
<1> QED
  BY <1>1, <1>2, <1>3 DEF Minds, Keeps

(* What a save writes back is what the row has.                            *)
LEMMA UpdateKeeps ==
  ASSUME IInv, NEW e \in Editors, Keeps(req[e]), UpdatePost(e)
  PROVE  RowsKept /\ Minds(e) /\ Keeps(req[e])'
<1>1. /\ req \in [Editors -> Request] /\ req[e].pc = "update"
      /\ posts \in [DOMAIN posts -> Post]
      /\ req' = [req EXCEPT ![e] = Idle]
  BY DEF IInv, TypeOK, UpdatePost
<1>2. PICK id, row :
        /\ id = req[e].id /\ row = RowOf(req[e])
        /\ \/ posts' = posts
           \/ id \in DOMAIN posts /\ posts' = [posts EXCEPT ![id] = row]
  BY DEF UpdatePost, DateWritten, RowOf
<1>3. id \in DOMAIN posts => RowKept(posts[id], row)
  BY <1>1, <1>2 DEF Keeps, RowKept, RowOf
<1>4. \A p \in DOMAIN posts : /\ p \in DOMAIN posts'
                              /\ p = id => RowKept(posts[p], posts'[p])
                              /\ p # id => posts'[p] = posts[p]
  BY <1>1, <1>2, <1>3 DEF RowKept
<1>5. DOMAIN posts' = DOMAIN posts
  BY <1>2
<1> QED
  BY <1>1, <1>2, <1>4, <1>5, IdleKeeps DEF RowsKept, RowKept, Minds

-----------------------------------------------------------------------------
(* A publish takes the row's date, if it has one.                          *)
LEMMA PublishKeeps ==
  ASSUME IInv, NEW e \in Editors, NEW p \in Posts, Publish(e, p)
  PROVE  UNCHANGED posts /\ Minds(e) /\ Keeps(req[e])'
<1>1. /\ req \in [Editors -> Request] /\ UNCHANGED posts
      /\ req' = [req EXCEPT ![e] = [Idle EXCEPT !.pc = "updateStatus", !.id = p,
                                              !.status = "published",
                                              !.publishedAt = DateOnce(posts[p])]]
  BY DEF IInv, TypeOK, Publish
<1>2. /\ req'[e].pc = "updateStatus" /\ req'[e].id = p /\ req'[e].status = "published"
      /\ req'[e].publishedAt = DateOnce(posts[p])
  BY <1>1 DEF Idle
<1> QED
  BY <1>1, <1>2 DEF Minds, Keeps, DateOnce

(* A publish never takes a row off the site or dates it anew.              *)
LEMMA UpdateStatusKeeps ==
  ASSUME IInv, NEW e \in Editors, Keeps(req[e]), UpdateStatus(e)
  PROVE  RowsKept /\ Minds(e) /\ Keeps(req[e])'
<1>1. /\ req \in [Editors -> Request] /\ req[e] \in Request /\ req[e].pc = "updateStatus"
      /\ posts \in [DOMAIN posts -> Post]
  BY DEF IInv, TypeOK, UpdateStatus
<1>2. PICK id : id = req[e].id
  OBVIOUS
<1>3. \/ posts' = posts
      \/ /\ id \in DOMAIN posts
         /\ posts' = [posts EXCEPT ![id] = [posts[id] EXCEPT !.status = req[e].status,
                                                           !.publishedAt = req[e].publishedAt]]
  BY <1>1, <1>2 DEF UpdateStatus
<1>4. \A p \in DOMAIN posts : /\ p \in DOMAIN posts'
                              /\ p = id => RowKept(posts[p], posts'[p])
                              /\ p # id => posts'[p] = posts[p]
  BY <1>1, <1>2, <1>3 DEF Keeps, RowKept, Post
<1>5. DOMAIN posts' = DOMAIN posts
  BY <1>3
<1>6. /\ \A d \in Editors \ {e} : req'[d] = req[d]
      /\ req'[e] = Idle \/ req'[e].pc = "reread"
  BY <1>1 DEF UpdateStatus, Request
<1>7. Keeps(req[e])'
  BY <1>6, IdleKeeps DEF Keeps, Idle
<1> QED
  BY <1>2, <1>4, <1>5, <1>6, <1>7 DEF RowsKept, RowKept, Minds

(* The end of a publish writes nothing.                                    *)
LEMMA AfterPublishKeeps ==
  ASSUME IInv, NEW e \in Editors, PublishReread(e) \/ Revalidate(e)
  PROVE  UNCHANGED posts /\ Minds(e) /\ Keeps(req[e])'
<1>1. req \in [Editors -> Request] /\ req[e] \in Request /\ UNCHANGED posts
  BY DEF IInv, TypeOK, PublishReread, Revalidate
<1>2. /\ \A d \in Editors \ {e} : req'[d] = req[d]
      /\ req'[e] = Idle \/ req'[e].pc = "revalidate"
  BY <1>1 DEF PublishReread, Revalidate, Request
<1>3. Keeps(req[e])'
  BY <1>2, IdleKeeps DEF Keeps, Idle
<1> QED
  BY <1>1, <1>2, <1>3 DEF Minds

-----------------------------------------------------------------------------
(* The system.                                                             *)

(* Any step of an editor's request.                                        *)
EditorDoes(e) ==
  \/ \E p \in Posts, text \in Texts, s \in Slugs : SaveDraft(e, p, text, s)
  \/ PutSource(e) \/ PutRendered(e) \/ CreatePost(e) \/ FindExisting(e) \/ UpdatePost(e)
  \/ \E p \in Posts : Publish(e, p)
  \/ UpdateStatus(e) \/ PublishReread(e) \/ Revalidate(e)

(* Every step of a save or a publish keeps to its own article, and to what *)
(* is left of the row there.                                               *)
LEMMA EditorKeeps ==
  ASSUME IInv, PatientInv, NEW e \in Editors, EditorDoes(e)
  PROVE  RowsKept /\ Minds(e) /\ Keeps(req[e])'
<1>1. Keeps(req[e])
  BY DEF PatientInv
<1>2. UNCHANGED posts => RowsKept
  BY DEF RowsKept, RowKept
<1> QED
  BY <1>1, <1>2, BeforeRow, CreateKeeps, FindExistingKeeps, UpdateKeeps, PublishKeeps,
     UpdateStatusKeeps, AfterPublishKeeps DEF EditorDoes

(* Readers, time and crashes write nothing.                                *)
LEMMA OthersDo ==
  ASSUME Next
  PROVE  \/ \E e \in Editors : EditorDoes(e)
         \/ UNCHANGED <<posts, source, rendered, req>>
         \/ Crash
  BY DEF Next, EditorDoes, FindPublishedBySlug, GetRendered, Tick

(* Every step leaves every row published that was, at its date.            *)
LEMMA PatientNext ==
  ASSUME IInv, PatientInv, [Next /\ OneAtATime']_vars
  PROVE  RowsKept /\ PatientInv'
<1>1. IInv'
  BY NextInv
<1>2. ASSUME NEW e \in Editors, EditorDoes(e), OneAtATime' PROVE RowsKept /\ PatientInv'
  <2>1. RowsKept /\ Minds(e) /\ Keeps(req[e])'
    BY <1>2, EditorKeeps
  <2>2. ASSUME NEW d \in Editors \ {e} PROVE Keeps(req[d])'
    BY <1>1, <2>1, OthersKeep
  <2> QED
    BY <1>2, <2>1, <2>2 DEF PatientInv
<1>3. CASE UNCHANGED <<posts, source, rendered, req>>
  BY <1>3 DEF RowsKept, RowKept, PatientInv, OneAtATime, Keeps
<1>4. CASE Crash
  <2>1. UNCHANGED posts /\ \A e \in Editors : req'[e] = Idle
    BY <1>4 DEF Crash
  <2>2. OneAtATime'
    BY <2>1 DEF OneAtATime, Idle
  <2>3. \A e \in Editors : Keeps(req[e])'
    BY <2>1 DEF Keeps, Idle
  <2> QED
    BY <2>1, <2>2, <2>3 DEF RowsKept, RowKept, PatientInv
<1> QED
  BY <1>2, <1>3, <1>4, OthersDo DEF vars

(* At first every slot is idle.                                            *)
LEMMA PatientInit == Init => PatientInv
<1> SUFFICES ASSUME Init PROVE PatientInv
  OBVIOUS
<1>1. \A e \in Editors : req[e] = Idle
  BY DEF Init
<1>2. OneAtATime
  BY <1>1 DEF OneAtATime, Idle
<1> QED
  BY <1>1, <1>2, IdleKeeps DEF PatientInv

(* PatientSpec is a part of Spec, so IInv is inherited.                    *)
LEMMA PatientInvariance == PatientSpec => [](IInv /\ PatientInv)
<1>1. Init => IInv /\ PatientInv
  BY InitInv, PatientInit
<1>2. IInv /\ PatientInv /\ [Next /\ OneAtATime']_vars => (IInv /\ PatientInv)'
  BY NextInv, PatientNext
<1> QED
  BY <1>1, <1>2, PTL DEF PatientSpec

(* No save, failure or crash takes a published article off the site, and a *)
(* publish is never undone, as long as no article has two requests at once.*)
THEOREM PublishedArticlesStay == PatientSpec => PublishedStaysPublished
<1>1. IInv /\ PatientInv /\ [Next /\ OneAtATime']_vars =>
        [\A p \in DOMAIN posts :
           posts[p].status = "published" => posts'[p].status = "published"]_vars
  BY PatientNext DEF RowsKept, RowKept
<1> QED
  BY <1>1, PatientInvariance, PTL DEF PatientSpec, PublishedStaysPublished

(* Nor does any of them date it anew.                                      *)
THEOREM DatesStay == PatientSpec => PublishedAtStable
<1>1. IInv /\ PatientInv /\ [Next /\ OneAtATime']_vars =>
        [\A p \in DOMAIN posts :
           posts[p].publishedAt # NULL => posts'[p].publishedAt = posts[p].publishedAt]_vars
  BY PatientNext DEF RowsKept, RowKept
<1> QED
  BY <1>1, PatientInvariance, PTL DEF PatientSpec, PublishedAtStable

-----------------------------------------------------------------------------
(* While everything answers.                                               *)

EverythingAnswers == Outcomes = {"ok"} /\ ~Crashes

(* A page that does not match its source is about to be written by a save  *)
(* that has already stored that source.                                    *)
PagesInv ==
  /\ \A p \in Posts :
       source[p] # NULL /\ rendered[p] # Render(source[p]) =>
         \E e \in Editors : req[e].pc = "putRendered" /\ req[e].id = p
  /\ \A e \in Editors : req[e].pc = "putRendered" => source[req[e].id] = req[e].text

(* The other steps of a request neither store objects nor come to the page.*)
LEMMA OtherSteps ==
  ASSUME IInv, EverythingAnswers, NEW e \in Editors,
         EditorDoes(e), ~PutSource(e), ~PutRendered(e)
  PROVE  /\ UNCHANGED <<source, rendered>>
         /\ \A d \in Editors \ {e} : req'[d] = req[d]
         /\ req[e].pc # "putRendered" /\ req'[e].pc # "putRendered"
<1>1. req \in [Editors -> Request] /\ req[e] \in Request
  BY DEF IInv, TypeOK
<1>2. CASE \E p \in Posts, text \in Texts, s \in Slugs : SaveDraft(e, p, text, s)
  BY <1>1, <1>2 DEF SaveDraft
<1>3. CASE CreatePost(e) \/ UpdatePost(e)
  BY <1>1, <1>3 DEF CreatePost, UpdatePost, Idle
<1>4. CASE FindExisting(e)
  BY <1>1, <1>4 DEF FindExisting, Idle, Request
<1>5. CASE \E p \in Posts : Publish(e, p)
  BY <1>1, <1>5 DEF Publish, Idle
<1>6. CASE UpdateStatus(e)
  BY <1>1, <1>6 DEF UpdateStatus, Idle, Request
<1>7. CASE PublishReread(e) \/ Revalidate(e)
  BY <1>1, <1>7 DEF PublishReread, Revalidate, Idle, Request
<1> QED
  BY <1>2, <1>3, <1>4, <1>5, <1>6, <1>7 DEF EditorDoes

(* No step parts a page from its source for good.                          *)
LEMMA PagesNext ==
  ASSUME IInv, OneAtATime, EverythingAnswers, PagesInv, [Next]_vars
  PROVE  PagesInv'
<1>1. req \in [Editors -> Request] /\ source \in [Posts -> Texts \cup {NULL}]
      /\ rendered \in [Posts -> HTML \cup {NULL}]
  BY DEF IInv, TypeOK
<1>2. ASSUME NEW e \in Editors, PutSource(e) PROVE PagesInv'
  <2>1. /\ req[e].pc = "putSource" /\ req[e].id \in Posts /\ req[e] \in Request
    BY <1>1, <1>2 DEF PutSource, IInv, RequestsKnow, Knows
  <2>2. /\ source' = [source EXCEPT ![req[e].id] = req[e].text]
        /\ req' = [req EXCEPT ![e].pc = "putRendered"] /\ UNCHANGED rendered
    BY <1>2 DEF PutSource, EverythingAnswers, Applied, Stored, Succeeded
  <2>3. /\ \A d \in Editors \ {e} : req'[d] = req[d]
        /\ req'[e].pc = "putRendered" /\ req'[e].id = req[e].id /\ req'[e].text = req[e].text
    BY <1>1, <2>1, <2>2 DEF Request
  <2>4. /\ source'[req[e].id] = req[e].text
        /\ \A p \in Posts \ {req[e].id} : source'[p] = source[p]
    BY <1>1, <2>1, <2>2
  <2>5. \A d \in Editors \ {e} : req[d].pc = "putRendered" =>
          req[d].id \in Posts \ {req[e].id}
    BY <2>1, NullAssumption DEF OneAtATime, IInv, RequestsKnow, Knows
  <2> QED
    BY <2>1, <2>2, <2>3, <2>4, <2>5 DEF PagesInv
<1>3. ASSUME NEW e \in Editors, PutRendered(e) PROVE PagesInv'
  <2>1. /\ req[e].pc = "putRendered" /\ req[e].id \in Posts /\ req[e] \in Request
    BY <1>1, <1>3 DEF PutRendered, IInv, RequestsKnow, Knows
  <2>2. /\ rendered' = [rendered EXCEPT ![req[e].id] = Render(req[e].text)]
        /\ req' = [req EXCEPT ![e].pc = IF req[e].isNew THEN "create" ELSE "findExisting"]
        /\ UNCHANGED source
    BY <1>3 DEF PutRendered, EverythingAnswers, Applied, Stored, Succeeded, RenderedNow
  <2>3. /\ \A d \in Editors \ {e} : req'[d] = req[d]
        /\ req'[e].pc # "putRendered"
    BY <1>1, <2>1, <2>2 DEF Request
  <2>4. /\ rendered'[req[e].id] = Render(source[req[e].id])
        /\ \A p \in Posts \ {req[e].id} : rendered'[p] = rendered[p]
    BY <1>1, <2>1, <2>2 DEF PagesInv
  <2> QED
    BY <2>1, <2>2, <2>3, <2>4 DEF PagesInv
<1>4. ASSUME NEW e \in Editors, EditorDoes(e), ~PutSource(e), ~PutRendered(e) PROVE PagesInv'
  BY <1>4, OtherSteps DEF PagesInv
<1>5. CASE UNCHANGED <<posts, source, rendered, req>>
  BY <1>5 DEF PagesInv
<1>6. ~Crash
  BY DEF Crash, EverythingAnswers
<1> QED
  BY <1>2, <1>3, <1>4, <1>5, <1>6, OthersDo DEF vars

(* While everything answers, the page of an article that nobody is saving  *)
(* is the one its source renders to, however many articles are saved at    *)
(* the same time.                                                          *)
THEOREM PagesMatchSources ==
  ASSUME EverythingAnswers
  PROVE  PatientSpec => []ObjectsAgree
<1>1. Init => PagesInv
  BY DEF Init, PagesInv, Idle
<1>2. IInv /\ PatientInv /\ PagesInv /\ [Next /\ OneAtATime']_vars => PagesInv'
  BY PagesNext DEF PatientInv
<1>3. PagesInv => ObjectsAgree
  BY DEF PagesInv, ObjectsAgree
<1> QED
  BY <1>1, <1>2, <1>3, PatientInvariance, PTL DEF PatientSpec
=============================================================================
