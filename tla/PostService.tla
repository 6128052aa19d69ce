---------------------------- MODULE PostService ----------------------------
(***************************************************************************)
(* service.PostService over the posts table and the object store.          *)
(*                                                                         *)
(* An article is a row and two objects whose keys are derived from its id: *)
(* posts/{id}/source.md and posts/{id}/rendered.html.  A save writes the   *)
(* objects first and the row last; nothing makes the three writes one, and *)
(* nothing orders the requests of two editors.  As in AuthService a        *)
(* request is a sequence of steps, one for each call to MySQL or to S3;    *)
(* a call may take effect and be answered, fail, or take effect and have   *)
(* its answer lost.                                                        *)
(***************************************************************************)
EXTENDS Naturals

CONSTANTS
  Posts,     \* the ids that may be drawn
  Slugs,     \* the slugs an editor may choose
  Texts,     \* what an editor may write (title, excerpt, Markdown, ...)
  Editors,   \* how many save and publish requests are in flight at most
  Readers,   \* how many reads of the public page are in flight at most
  NULL,      \* SQL NULL, a missing object, an unset local variable
  MaxTime,   \* bound: the clock stops here
  Outcomes,  \* what may become of a call
  Crashes    \* whether the server may crash and start again

ASSUME NullAssumption == NULL \notin Posts \cup Slugs \cup Texts \cup Nat

ASSUME BoundAssumption ==
  /\ MaxTime \in Nat
  /\ "ok" \in Outcomes /\ Outcomes \subseteq {"ok", "refused", "lostAck"}
  /\ Crashes \in BOOLEAN

Applied(o) == o # "refused"
Succeeded(o) == o = "ok"

VARIABLES
  posts,     \* the posts table: a function from the ids of its rows
  source,    \* source[p]: the object posts/{p}/source.md
  rendered,  \* rendered[p]: the object posts/{p}/rendered.html
  req,       \* req[e]: the editor's request in slot e
  reader,    \* reader[v]: the public read in slot v
  clock      \* time.Now()

vars == <<posts, source, rendered, req, reader, clock>>

(* meta stands for all the columns an editor fills in but the slug, which  *)
(* are written together.  "archived" is in the schema's check constraint,  *)
(* but no code writes it.                                                  *)
Post == [slug        : Slugs,
         meta        : Texts,
         status      : {"draft", "published"},
         publishedAt : Nat \cup {NULL}]

(* What goldmark and bluemonday make of a text; it depends on nothing else.*)
Render(text) == [html |-> text]

HTML == {Render(text) : text \in Texts}

ASSUME HTMLAssumption == NULL \notin HTML

PCs == {"idle", "putSource", "putRendered", "create", "findExisting", "update",
        "updateStatus", "reread", "revalidate"}

Request == [pc          : PCs,
            isNew       : BOOLEAN,                    \* input.ID == ""
            id          : Posts \cup {NULL},
            slug        : Slugs \cup {NULL},
            text        : Texts \cup {NULL},
            status      : {"draft", "published", NULL},
            publishedAt : Nat \cup {NULL}]

Idle == [pc |-> "idle", isNew |-> FALSE, id |-> NULL, slug |-> NULL, text |-> NULL,
         status |-> NULL, publishedAt |-> NULL]

ReadIdle == [pc |-> "idle", id |-> NULL, meta |-> NULL]

(* IsPublishable: the title, excerpt and paths a save has stored are set.  *)
IsPublishable(row) == row.slug # NULL /\ row.meta # NULL

(* An id is 16 random bytes: it was never drawn before.                    *)
Fresh(p) ==
  /\ p \notin DOMAIN posts
  /\ source[p] = NULL /\ rendered[p] = NULL
  /\ \A e \in Editors : req[e].id # p

(* slug has a unique index.                                                *)
SlugFree(s, p) == \A x \in DOMAIN posts \ {p} : posts[x].slug # s

ReadMayFail == \E o \in Outcomes : ~Succeeded(o)

Init ==
  /\ posts = [p \in {} |-> NULL]
  /\ source = [p \in Posts |-> NULL]
  /\ rendered = [p \in Posts |-> NULL]
  /\ req = [e \in Editors |-> Idle]
  /\ reader = [v \in Readers |-> ReadIdle]
  /\ clock = 0

-----------------------------------------------------------------------------
(* SaveDraft                                                               *)

(* The input is valid and has been rendered; the id is drawn now, or is    *)
(* whatever the editor sent, which need not be that of an article.         *)
SaveDraft(e, p, text, s) ==
  /\ req[e].pc = "idle"
  /\ \E isNew \in BOOLEAN :
       /\ isNew => Fresh(p)
       /\ req' = [req EXCEPT ![e] = [pc |-> "putSource", isNew |-> isNew, id |-> p, slug |-> s,
                                     text |-> text, status |-> "draft", publishedAt |-> NULL]]
  /\ UNCHANGED <<posts, source, rendered, reader, clock>>

(* Seeded fault: an upload's error is dropped.                             *)
StoredAnyhow(o) == TRUE

Stored(o) == Succeeded(o)

PutSource(e) ==
  /\ req[e].pc = "putSource"
  /\ \E o \in Outcomes :
       /\ source' = IF Applied(o) THEN [source EXCEPT ![req[e].id] = req[e].text] ELSE source
       /\ req' = IF Stored(o) THEN [req EXCEPT ![e].pc = "putRendered"]
                              ELSE [req EXCEPT ![e] = Idle]
  /\ UNCHANGED <<posts, rendered, reader, clock>>

(* Seeded fault: the Markdown itself is stored under the page's key.       *)
RenderedRaw(q) == q.text

(* Seeded fault: an article that exists is not rendered again.             *)
RenderedOnce(q) == IF q.isNew THEN Render(q.text) ELSE rendered[q.id]

RenderedNow(q) == Render(q.text)

PutRendered(e) ==
  /\ req[e].pc = "putRendered"
  /\ \E o \in Outcomes :
       /\ rendered' = IF Applied(o) THEN [rendered EXCEPT ![req[e].id] = RenderedNow(req[e])]
                                    ELSE rendered
       /\ req' = IF Stored(o)
                   THEN [req EXCEPT ![e].pc = IF req[e].isNew THEN "create" ELSE "findExisting"]
                   ELSE [req EXCEPT ![e] = Idle]
  /\ UNCHANGED <<posts, source, reader, clock>>

(* Seeded fault: published_at is left out of the update.                   *)
DateUntouched(q, row) == row.publishedAt

DateWritten(q, row) == q.publishedAt

(* The columns of a row, from the article a request has put together.      *)
RowOf(q) == [slug |-> q.slug, meta |-> q.text, status |-> q.status,
             publishedAt |-> q.publishedAt]

(* repo.Create: whatever comes of it, the request ends here.               *)
CreatePost(e) ==
  /\ req[e].pc = "create"
  /\ LET q == req[e]
     IN \E o \in Outcomes :
          posts' = IF Applied(o) /\ SlugFree(q.slug, q.id)
                     THEN [p \in DOMAIN posts \cup {q.id} |->
                             IF p = q.id THEN RowOf(q) ELSE posts[p]]
                     ELSE posts
  /\ req' = [req EXCEPT ![e] = Idle]
  /\ UNCHANGED <<source, rendered, reader, clock>>

(* Seeded fault: the article is saved as a draft whatever it was.          *)
StatusReset(row) == "draft"

StatusKept(row) == row.status

(* The status and the date of the row are read, to be written back; an     *)
(* unknown id is only noticed here, with the objects already stored.       *)
FindExisting(e) ==
  /\ req[e].pc = "findExisting"
  /\ \/ /\ req[e].id \in DOMAIN posts
        /\ LET row == posts[req[e].id]
           IN req' = [req EXCEPT ![e].pc = "update", ![e].status = StatusKept(row),
                                 ![e].publishedAt = row.publishedAt]
     \/ /\ ReadMayFail \/ req[e].id \notin DOMAIN posts
        /\ req' = [req EXCEPT ![e] = Idle]
  /\ UNCHANGED <<posts, source, rendered, reader, clock>>

(* repo.Update writes every column of the one row, where id = ?; the row   *)
(* is then read again, for the answer only.                                *)
UpdatePost(e) ==
  /\ req[e].pc = "update"
  /\ LET q == req[e]
     IN \E o \in Outcomes :
          posts' = IF Applied(o) /\ q.id \in DOMAIN posts /\ SlugFree(q.slug, q.id)
                     THEN [posts EXCEPT ![q.id] =
                             [RowOf(q) EXCEPT !.publishedAt = DateWritten(q, posts[q.id])]]
                     ELSE posts
  /\ req' = [req EXCEPT ![e] = Idle]
  /\ UNCHANGED <<source, rendered, reader, clock>>

-----------------------------------------------------------------------------
(* Publish                                                                 *)

(* Seeded fault: publishing again dates the article again.                 *)
DateAlways(row) == clock

DateOnce(row) == IF row.publishedAt = NULL THEN clock ELSE row.publishedAt

(* FindByID, IsPublishable, and the date: the row's own if it has one.     *)
Publish(e, p) ==
  /\ req[e].pc = "idle"
  /\ p \in DOMAIN posts
  /\ IsPublishable(posts[p])
  /\ req' = [req EXCEPT ![e] = [Idle EXCEPT !.pc = "updateStatus", !.id = p,
                                            !.status = "published",
                                            !.publishedAt = DateOnce(posts[p])]]
  /\ UNCHANGED <<posts, source, rendered, reader, clock>>

UpdateStatus(e) ==
  /\ req[e].pc = "updateStatus"
  /\ \E o \in Outcomes :
       /\ posts' = IF Applied(o) /\ req[e].id \in DOMAIN posts
                     THEN [posts EXCEPT ![req[e].id].status = req[e].status,
                                        ![req[e].id].publishedAt = req[e].publishedAt]
                     ELSE posts
       /\ req' = IF Succeeded(o) THEN [req EXCEPT ![e].pc = "reread"]
                                 ELSE [req EXCEPT ![e] = Idle]
  /\ UNCHANGED <<source, rendered, reader, clock>>

(* The row as it is by now: its slug is the one the blog is told about.    *)
PublishReread(e) ==
  /\ req[e].pc = "reread"
  /\ \/ /\ req[e].id \in DOMAIN posts
        /\ req' = [req EXCEPT ![e].pc = "revalidate", ![e].slug = posts[req[e].id].slug]
     \/ /\ ReadMayFail
        /\ req' = [req EXCEPT ![e] = Idle]
  /\ UNCHANGED <<posts, source, rendered, reader, clock>>

(* The blog is called; its answer changes nothing here.                    *)
Revalidate(e) ==
  /\ req[e].pc = "revalidate"
  /\ req' = [req EXCEPT ![e] = Idle]
  /\ UNCHANGED <<posts, source, rendered, reader, clock>>

-----------------------------------------------------------------------------
(* GetPublicBySlug: the row, then the object its path names.               *)

FindPublishedBySlug(v, s) ==
  /\ reader[v].pc = "idle"
  /\ \E p \in DOMAIN posts :
       /\ posts[p].slug = s
       /\ posts[p].status = "published"
       /\ reader' = [reader EXCEPT ![v] = [pc |-> "get", id |-> p, meta |-> posts[p].meta]]
  /\ UNCHANGED <<posts, source, rendered, req, clock>>

GetRendered(v) ==
  /\ reader[v].pc = "get"
  /\ reader' = [reader EXCEPT ![v] = ReadIdle]
  /\ UNCHANGED <<posts, source, rendered, req, clock>>

-----------------------------------------------------------------------------
(* The environment.                                                        *)

Tick ==
  /\ clock < MaxTime
  /\ clock' = clock + 1
  /\ UNCHANGED <<posts, source, rendered, req, reader>>

Crash ==
  /\ Crashes
  /\ req' = [e \in Editors |-> Idle]
  /\ reader' = [v \in Readers |-> ReadIdle]
  /\ UNCHANGED <<posts, source, rendered, clock>>

Next ==
  \/ \E e \in Editors :
       \/ \E p \in Posts, text \in Texts, s \in Slugs : SaveDraft(e, p, text, s)
       \/ PutSource(e) \/ PutRendered(e) \/ CreatePost(e) \/ FindExisting(e) \/ UpdatePost(e)
       \/ \E p \in Posts : Publish(e, p)
       \/ UpdateStatus(e) \/ PublishReread(e) \/ Revalidate(e)
  \/ \E v \in Readers : (\E s \in Slugs : FindPublishedBySlug(v, s)) \/ GetRendered(v)
  \/ Tick
  \/ Crash

Spec == Init /\ [][Next]_vars

-----------------------------------------------------------------------------
(* Properties of every execution.                                          *)

(* The types of the state.                                                 *)
TypeOK ==
  /\ DOMAIN posts \subseteq Posts
  /\ posts \in [DOMAIN posts -> Post]
  /\ source \in [Posts -> Texts \cup {NULL}]
  /\ rendered \in [Posts -> HTML \cup {NULL}]
  /\ req \in [Editors -> Request]
  /\ reader \in [Readers -> [pc : {"idle", "get"}, id : Posts \cup {NULL},
                             meta : Texts \cup {NULL}]]
  /\ clock \in Nat

(* A row never names objects that are not there, although the store and    *)
(* the database know nothing of one another: no listed article fails to    *)
(* open, whatever failed while it was saved.                               *)
RowsHaveObjects == \A p \in DOMAIN posts : source[p] # NULL /\ rendered[p] # NULL

(* A row has a publication date exactly when it is published, although a   *)
(* save writes both columns back from an older read while a publish writes *)
(* them too.                                                               *)
DatedIffPublished ==
  \A p \in DOMAIN posts : posts[p].status = "published" <=> posts[p].publishedAt # NULL

-----------------------------------------------------------------------------
(* Properties of patient editors: nobody saves or publishes an article     *)
(* while another request for it is under way.                              *)

OneAtATime ==
  \A d, e \in Editors : req[d].id # NULL /\ req[d].id = req[e].id => d = e

PatientSpec == Init /\ [][Next /\ OneAtATime']_vars

(* No step takes a published article off the site: there is no unpublish,  *)
(* and a save is not one.                                                  *)
PublishedStaysPublished ==
  [][\A p \in DOMAIN posts :
       posts[p].status = "published" => posts'[p].status = "published"]_vars

(* An article keeps the date of its first publication.                     *)
PublishedAtStable ==
  [][\A p \in DOMAIN posts :
       posts[p].publishedAt # NULL => posts'[p].publishedAt = posts[p].publishedAt]_vars

(* While no save of an article is under way, its page was rendered from    *)
(* the source the editor would load (as long as the store answers).        *)
ObjectsAgree ==
  \A p \in Posts :
    (\A e \in Editors : req[e].id # p) /\ source[p] # NULL => rendered[p] = Render(source[p])

(* SaveDraft stores a text "without publishing it": the page readers get   *)
(* under a slug changes only with the step of a publish.                   *)
PageOf(s) ==
  {rendered[p] : p \in {x \in DOMAIN posts : posts[x].slug = s /\ posts[x].status = "published"}}

SavesDoNotPublish ==
  [][\A s \in Slugs : PageOf(s)' = PageOf(s) \/ \E e \in Editors : UpdateStatus(e)]_vars
=============================================================================
