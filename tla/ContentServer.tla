---------------------------- MODULE ContentServer ----------------------------
(***************************************************************************)
(* The process of cmd/server, from its start to its end, with the requests *)
(* it carries: the pages of a client's walk through the list, the writes   *)
(* of editors, and the uploads of images.                                  *)
(*                                                                         *)
(* A handler may be between two statements when the process ends: after a  *)
(* signal the server waits for its handlers, but no longer than ten        *)
(* seconds, while nothing bounds a handler's statement.  A client whose    *)
(* request gets no answer sends it again to the next process.              *)
(***************************************************************************)
EXTENDS PostListing, ImageUpload

CONSTANTS
  Sizes,            \* the sizes of the files that may be sent
  Environments,     \* the environments a process may be started in
  DefaultUploadMax  \* 10 MiB

(* The upload limit is an int64, whatever is in the environment.           *)
ASSUME EnvironmentAssumption ==
  /\ Sizes \subseteq Nat
  /\ DefaultUploadMax \in 1..MaxInt
  /\ \A env \in Environments : env.uploadMax = NULL \/ env.uploadMax \in (-MaxInt - 1)..MaxInt

INSTANCE Configuration

VARIABLES
  phase,      \* where main is
  signalled,  \* whether ctx is done: SIGINT or SIGTERM has come
  cfg,        \* what Load has returned
  upload      \* the upload request

serverVars == <<phase, signalled, cfg, upload>>

contentVars == <<listVars, serverVars>>

(* "opening" is up to gorm.Open, "migrating" from the ping to the listener,*)
(* "draining" is server.Shutdown.                                          *)
Phases == {"down", "opening", "migrating", "serving", "draining"}

NoConfig == Load([s \in {"databaseURL", "jwtSecret", "accessTTL", "refreshTTL", "uploadMax",
                         "loginLimit", "loginWindow", "cookieName", "cookieSecure",
                         "cookieSameSite", "bucket"} |-> NULL])

ContentInit ==
  /\ ListInit
  /\ phase = "down"
  /\ signalled = FALSE
  /\ cfg = NoConfig
  /\ upload = NoUpload

-----------------------------------------------------------------------------
(* The process.                                                            *)

InFlight ==
  \/ walk.pc = "find"
  \/ \E e \in Editors : write[e] # NoWrite
  \/ upload.pc = "put"

(* The process ends, and every handler in it.  A statement or a Put that   *)
(* was under way is as good as failed: had it taken effect, that would     *)
(* have been a step of its own before this one.                            *)
End ==
  /\ phase' = "down"
  /\ signalled' = FALSE
  /\ cfg' = NoConfig
  /\ walk' = AskAgain
  /\ write' = [e \in Editors |-> NoWrite]
  /\ newer' = TimesOf(DOMAIN status)
  /\ upload' = IF upload.pc = "put" THEN NoUpload ELSE upload
  /\ UNCHANGED status

Start(env) ==
  /\ phase = "down"
  /\ Accepts(Load(env))
  /\ phase' = "opening"
  /\ cfg' = Load(env)
  /\ UNCHANGED <<listVars, signalled, upload>>

(* gorm.Open takes no context: a signal is not noticed while it waits.     *)
OpenDatabase ==
  /\ phase = "opening"
  /\ phase' = "migrating"
  /\ UNCHANGED <<listVars, signalled, cfg, upload>>

(* PingContext and AutoMigrate have deadlines, and their context is done   *)
(* with the first signal, but a signal may also come when they are done:   *)
(* nothing looks at it any more before the listener is there.              *)
Listen ==
  /\ phase = "migrating"
  /\ phase' = "serving"
  /\ UNCHANGED <<listVars, signalled, cfg, upload>>

(* A step of the start fails, or the listener does: os.Exit(1).            *)
ExitOnError == phase \in {"opening", "migrating", "serving"} /\ End

(* Only the first signal does anything: NotifyContext has taken away the   *)
(* default, by which a second would end the process.                       *)
Signal ==
  /\ phase # "down"
  /\ ~signalled
  /\ signalled' = TRUE
  /\ UNCHANGED <<listVars, phase, cfg, upload>>

(* The listener is closed; requests that were accepted go on.              *)
Shutdown ==
  /\ phase = "serving"
  /\ signalled
  /\ phase' = "draining"
  /\ UNCHANGED <<listVars, signalled, cfg, upload>>

Drained == phase = "draining" /\ ~InFlight /\ End

(* Seeded fault: Shutdown is given a context without a deadline.           *)
NoDeadline == phase = "draining" /\ ~InFlight /\ End

(* shutdownCtx is over after ten seconds, whatever is still under way.     *)
DeadlineExceeded == phase = "draining" /\ End

Crash == phase # "down" /\ End

-----------------------------------------------------------------------------
(* The requests.  One is accepted only by a process that listens, and one  *)
(* that was accepted goes on while the process is there.                   *)

Write(e) ==
  /\ phase = "serving"
  /\ \E p \in Posts : CreatePost(e, p) \/ FindExisting(e, p) \/ UpdateStatus(e, p)
  /\ UNCHANGED serverVars

List ==
  /\ phase = "serving"
  /\ CountPosts
  /\ UNCHANGED serverVars

Finish ==
  /\ phase \in {"serving", "draining"}
  /\ \/ FindPosts
     \/ \E e \in Editors : UpdatePost(e) \/ EndWrite(e) \/ FailWrite(e)
  /\ UNCHANGED serverVars

(* A statement of List fails: 500.                                         *)
ListFails ==
  /\ phase \in {"serving", "draining"}
  /\ walk.pc = "find"
  /\ walk' = AskAgain
  /\ UNCHANGED <<status, newer, write, serverVars>>

Upload(kind, size, fault) ==
  /\ phase = "serving"
  /\ walk.pc = "idle"
  /\ upload.pc = "idle"
  /\ upload' = Received(kind, size, cfg.uploadMax, fault)
  /\ UNCHANGED <<listVars, phase, signalled, cfg>>

Put(applied, succeeded) ==
  /\ phase \in {"serving", "draining"}
  /\ upload.pc = "put"
  /\ succeeded => applied
  /\ upload' = PutDone(upload, applied, succeeded)
  /\ UNCHANGED <<listVars, phase, signalled, cfg>>

(* What clients do on their own: the page that uploads and the one that    *)
(* lists are one, and it does one thing at a time.                         *)
Client ==
  /\ \/ /\ upload.pc = "idle"
        /\ \E f \in Filters, asked \in Asked : BeginWalk(f, asked)
        /\ UNCHANGED upload
     \/ /\ EndWalk
        /\ UNCHANGED upload
     \/ /\ upload.pc = "answered"
        /\ upload' = NoUpload
        /\ UNCHANGED listVars
  /\ UNCHANGED <<phase, signalled, cfg>>

ContentNext ==
  \/ \E env \in Environments : Start(env)
  \/ OpenDatabase \/ Listen \/ ExitOnError \/ Signal
  \/ Shutdown \/ Drained \/ DeadlineExceeded \/ Crash
  \/ \E e \in Editors : Write(e)
  \/ List \/ Finish \/ ListFails
  \/ \E kind \in Kinds, size \in Sizes, fault \in Faults : Upload(kind, size, fault)
  \/ \E applied, succeeded \in BOOLEAN : Put(applied, succeeded)
  \/ Client

ContentSpec == ContentInit /\ [][ContentNext]_contentVars

(* main gets on: the ping and the migration end by their deadlines, and so *)
(* does the shutdown.  Nothing makes gorm.Open return, a handler finish or *)
(* a client ask.                                                           *)
MainFairness ==
  /\ WF_contentVars(Listen \/ (phase = "migrating" /\ ExitOnError))
  /\ WF_contentVars(Shutdown)
  /\ WF_contentVars(DeadlineExceeded)

LiveContentSpec == ContentSpec /\ MainFairness

-----------------------------------------------------------------------------
(* Properties.                                                             *)

(* The types of the state.                                                 *)
ContentTypeOK ==
  /\ ListTypeOK
  /\ phase \in Phases
  /\ signalled \in BOOLEAN
  /\ Accepts(cfg) \/ phase = "down"
  /\ IsUpload(upload)

(* What is stored of an upload and what its client is told agree with what *)
(* was sent, at the limit of the process that answers, whatever fails on   *)
(* the way and whatever becomes of the Put: the limit is judged twice, by  *)
(* the handler and by the service, of different byte counts.               *)
UploadsJudgedRight == upload.pc = "answered" => JudgedRight(upload)

(* A signal ends the process, however slow its handlers are and in         *)
(* whatever it was when the signal came, except while it opens the         *)
(* database.                                                               *)
ShutdownEnds == signalled /\ phase # "opening" ~> phase = "down"
=============================================================================
