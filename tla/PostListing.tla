----------------------------- MODULE PostListing -----------------------------
(***************************************************************************)
(* The posts table as GET /posts and GET /admin/posts show it: a page at a *)
(* time, "order by updated_at desc", to a client that walks from page to   *)
(* page while editors write.                                               *)
(*                                                                         *)
(* GORM reads the clock before it sends a statement, so rows are ordered   *)
(* by when their last write began, not by when it took effect.  A time is  *)
(* known by the article that has it, or by the editor whose statement is   *)
(* still under way, and by the times that are later than it.  (Two times   *)
(* are never equal: the column has microseconds.)  What the columns hold,  *)
(* and how a save comes to write them, is PostService's.                   *)
(***************************************************************************)
EXTENDS Integers, FiniteSets

CONSTANTS
  Posts,         \* ids
  Editors,       \* how many statements write articles at a time
  Filters,       \* the status a walk asks for; "" is all
  Asked,         \* the ?limit= a client may send; NULL: none, or no number
  DefaultLimit,  \* 20
  MaxLimit,      \* 100
  NULL

ASSUME ListingAssumption ==
  /\ DefaultLimit \in Nat /\ MaxLimit \in Nat
  /\ 0 < DefaultLimit /\ DefaultLimit <= MaxLimit
  /\ Posts \cap Editors = {}
  /\ NULL \notin Posts
  /\ Asked \subseteq Int \cup {NULL}

VARIABLES
  status,  \* status[p], for the articles that have a row
  newer,   \* newer[x]: the values of updated_at that are later than x's
  write,   \* write[e]: the save or publication under way
  walk     \* the client's walk through the list

listVars == <<status, newer, write, walk>>

(* sent: the statement has its time.                                       *)
NoWrite == [post |-> NULL, status |-> NULL, sent |-> FALSE]

Sent == {e \in Editors : write[e].sent}

(* What the client knows: where it is, and how many articles it was told   *)
(* there are.  missing is history: the articles that have been on the list *)
(* since the walk began, have not been written to, and have not been shown *)
(* yet.                                                                    *)
NoWalk == [pc |-> "idle", filter |-> "", limit |-> DefaultLimit, offset |-> 0,
           total |-> 0, missing |-> {}]

ListInit ==
  /\ status = [p \in {} |-> "draft"]
  /\ newer = [x \in {} |-> {}]
  /\ write = [e \in Editors |-> NoWrite]
  /\ walk = NoWalk

-----------------------------------------------------------------------------
(* PostRepository.List                                                     *)

(* "status = ?", unless no status is asked for.                            *)
Selected(f, rows) == {p \in DOMAIN rows : f = "" \/ rows[p] = f}

Matching(f) == Selected(f, status)

(* How many of the selected rows come before the one of p.                 *)
Place(p, selected, times) == Cardinality(selected \cap times[p])

(* Seeded fault: the greatest limit there is counts as out of range.       *)
RowLimitBelow(limit) == IF limit <= 0 \/ limit >= MaxLimit THEN DefaultLimit ELSE limit

(* A limit out of range is not cut down to the range: it is the default.   *)
RowLimit(limit) == IF limit <= 0 \/ limit > MaxLimit THEN DefaultLimit ELSE limit

(* limit ? offset ?                                                        *)
Page(selected, times, limit, offset) ==
  {p \in selected : Place(p, selected, times) \in offset..(offset + limit - 1)}

-----------------------------------------------------------------------------
(* handleListPublishedPosts and PostService.List                           *)

(* parseIntQuery: what is not a number is as if it had not been sent.      *)
ParseInt(v, fallback) == IF v = NULL THEN fallback ELSE v

(* The service judges a limit as the repository does, but for itself.      *)
Clamp(limit) == IF limit <= 0 \/ limit > MaxLimit THEN DefaultLimit ELSE limit

(* Seeded fault: the answer repeats the limit that was asked for.          *)
LimitEchoed(asked) == ParseInt(asked, DefaultLimit)

(* The limit the answer names, and that the repository is given.           *)
LimitAnswered(asked) == Clamp(ParseInt(asked, DefaultLimit))

-----------------------------------------------------------------------------
(* Writes.  What a save does before it reads the status, and a publication *)
(* before its UPDATE, does not bear on the list.                           *)

(* How a write to p, that leaves these rows and times, bears on the walk.  *)
(* Two things are beyond a client that counts rows: an article it has      *)
(* passed leaves or falls behind it, and all others move up past it; an    *)
(* article joins after the total was counted, and the end is further than  *)
(* it seems.                                                               *)
Watched(p, rows, times) ==
  LET old == Matching(walk.filter)
      new == Selected(walk.filter, rows)
      slippedOff == /\ p \in old /\ Place(p, old, newer) < walk.offset
                    /\ ~(p \in new /\ Place(p, new, times) < walk.offset)
      uncounted  == p \in new \ old /\ walk.pc = "find"
  IN [walk EXCEPT !.missing = IF slippedOff \/ uncounted THEN {} ELSE @ \ {p}]

(* The times, when no others than those of T are left.                     *)
TimesOf(T) == [x \in T |-> newer[x] \cap T]

(* The statement of editor e gets its time, and will write what w says.    *)
Send(e, w) ==
  /\ newer' = [x \in DOMAIN newer \cup {e} |-> IF x = e THEN {} ELSE newer[x] \cup {e}]
  /\ write' = [write EXCEPT ![e] = [w EXCEPT !.sent = TRUE]]
  /\ UNCHANGED <<status, walk>>

CreatePost(e, p) ==
  /\ write[e] = NoWrite
  /\ p \notin DOMAIN status
  /\ \A x \in Editors : write[x].post # p
  /\ Send(e, [NoWrite EXCEPT !.post = p, !.status = "draft"])

(* A save reads the status that it will write, in a statement of its own.  *)
FindExisting(e, p) ==
  /\ write[e] = NoWrite
  /\ p \in DOMAIN status
  /\ write' = [write EXCEPT ![e] = [post |-> p, status |-> status[p], sent |-> FALSE]]
  /\ UNCHANGED <<status, newer, walk>>

UpdatePost(e) ==
  /\ write[e] # NoWrite
  /\ ~write[e].sent
  /\ Send(e, write[e])

(* Publishing writes its own status, whatever it has read.                 *)
UpdateStatus(e, p) ==
  /\ write[e] = NoWrite
  /\ p \in DOMAIN status
  /\ Send(e, [NoWrite EXCEPT !.post = p, !.status = "published"])

(* The row of p takes the time of the statement of e, in place of the one  *)
(* it had.                                                                 *)
TimesAfter(e, p) ==
  LET T == (DOMAIN newer \ {e}) \cup {p}
      At(x) == IF x = p THEN e ELSE x
  IN [x \in T |-> {y \in T : At(y) \in newer[At(x)]}]

EndWrite(e) ==
  LET p == write[e].post IN
    /\ write[e].sent
    /\ status' = [x \in DOMAIN status \cup {p} |->
                    IF x = p THEN write[e].status ELSE status[x]]
    /\ newer' = TimesAfter(e, p)
    /\ walk' = Watched(p, status', newer')
    /\ write' = [write EXCEPT ![e] = NoWrite]

(* What fails may be the statement, or anything before it.                 *)
FailWrite(e) ==
  /\ write[e] # NoWrite
  /\ newer' = TimesOf(DOMAIN newer \ {e})
  /\ write' = [write EXCEPT ![e] = NoWrite]
  /\ UNCHANGED <<status, walk>>

-----------------------------------------------------------------------------
(* The walk.                                                               *)

BeginWalk(f, asked) ==
  /\ walk.pc = "idle"
  /\ walk' = [NoWalk EXCEPT !.pc = "ask", !.filter = f, !.limit = LimitAnswered(asked),
                            !.missing = Matching(f)]
  /\ UNCHANGED <<status, newer, write>>

(* The first statement of a request for a page.                            *)
CountPosts ==
  /\ walk.pc = "ask"
  /\ walk' = [walk EXCEPT !.pc = "find", !.total = Cardinality(Matching(walk.filter))]
  /\ UNCHANGED <<status, newer, write>>

(* The second, and the answer: the client goes on by the limit it is told, *)
(* until it has come to the total.                                         *)
FindPosts ==
  /\ walk.pc = "find"
  /\ LET page == Page(Matching(walk.filter), newer, RowLimit(walk.limit), walk.offset)
         next == walk.offset + walk.limit
     IN walk' = [walk EXCEPT !.pc = IF next >= walk.total THEN "done" ELSE "ask",
                             !.offset = next, !.total = 0, !.missing = @ \ page]
  /\ UNCHANGED <<status, newer, write>>

(* The walk when a statement of a page has failed, or the server has gone: *)
(* the client asks for that page again.                                    *)
AskAgain == IF walk.pc = "find" THEN [walk EXCEPT !.pc = "ask", !.total = 0] ELSE walk

EndWalk ==
  /\ walk.pc = "done"
  /\ walk' = NoWalk
  /\ UNCHANGED <<status, newer, write>>

-----------------------------------------------------------------------------
(* The types of the state.                                                 *)
ListTypeOK ==
  /\ DOMAIN status \subseteq Posts
  /\ status \in [DOMAIN status -> {"draft", "published"}]
  /\ DOMAIN newer = DOMAIN status \cup Sent
  /\ newer \in [DOMAIN newer -> SUBSET DOMAIN newer]
  /\ write \in [Editors -> [post : Posts \cup {NULL}, status : {"draft", "published", NULL},
                            sent : BOOLEAN]]
  /\ walk \in [pc : {"idle", "ask", "find", "done"}, filter : Filters \cup {""},
               limit : 1..MaxLimit, offset : Nat, total : Nat, missing : SUBSET Posts]

(* A client that walks to the end has been shown every article that was on *)
(* the list all the while and was not written to: new articles, saves and  *)
(* failed pages shift the list under it, but it only ever sees some twice, *)
(* unless an article it had passed slipped back or one joined uncounted.   *)
WalkComplete == walk.pc = "done" => walk.missing = {}
=============================================================================
