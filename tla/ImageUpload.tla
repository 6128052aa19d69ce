----------------------------- MODULE ImageUpload -----------------------------
(***************************************************************************)
(* POST /admin/uploads/images: handleUploadImage and ImageService.Upload.  *)
(*                                                                         *)
(* The limit is applied twice: by the handler to the whole multipart body, *)
(* and by the service to the image in it, of which it reads one byte more  *)
(* than is allowed, in an int64.                                           *)
(***************************************************************************)
EXTENDS Integers

CONSTANTS
  MaxInt,    \* the largest int64
  Overhead,  \* the bytes a multipart body has besides its file
  Kinds      \* what a file may be: image types, "other", or "none" (no file)

ASSUME WidthAssumption == MaxInt \in Nat /\ Overhead \in Nat \ {0}

ASSUME KindAssumption == {"other", "none"} \subseteq Kinds

Wrap(x) == IF x > MaxInt THEN x - 2 * (MaxInt + 1) ELSE x

(* io.ReadAll(io.LimitReader(reader, n)): nothing, if n is not positive.   *)
BytesRead(size, n) == IF n <= 0 THEN 0 ELSE IF size < n THEN size ELSE n

(* http.DetectContentType and imageExtension; of nothing, it is plain text.*)
Sniffed(kind, bytes) == IF bytes = 0 THEN "other" ELSE kind

(* What may fail before the Put: the body of the request breaks off, takes *)
(* too long, is malformed or cannot be kept, before it exceeds the limit;  *)
(* the file cannot be read; no id can be drawn.                            *)
Faults == {"none", "body", "read", "id"}

(* ImageService.Upload, up to the call of Put.  An error of another kind   *)
(* than those two is a 500 ("failed").                                     *)
UploadVerdict(kind, size, limit, fault) ==
  LET n == Wrap(limit + 1)
      bytes == BytesRead(size, n)
  IN IF fault = "read" /\ n > 0 THEN "failed"
     ELSE IF bytes > limit THEN "tooLarge"
     ELSE IF Sniffed(kind, bytes) = "other" THEN "invalid"
     ELSE IF fault = "id" THEN "failed"
     ELSE "put"

(* Seeded fault: a body as large as the limit is refused.                  *)
FitsBelow(body, limit) == body < limit

(* http.MaxBytesReader                                                     *)
Fits(body, limit) == body <= limit

(* handleUploadImage, up to the same call.  The whole body is parsed       *)
(* before it is known whether there is a file in it; every error in that,  *)
(* but for the limit, is answered as if there were none.                   *)
HandlerVerdict(kind, size, limit, fault) ==
  IF fault = "body" THEN "noFile"
  ELSE IF ~Fits(size + Overhead, limit) THEN "tooLarge"
  ELSE IF kind = "none" THEN "noFile"
  ELSE UploadVerdict(kind, size, limit, fault)

(* An upload ends with its answer.  limit, fault and stored are history:   *)
(* the limit it was judged by, what failed before the Put, and the size of *)
(* its object in the store, if there is one.                               *)
NoUpload == [pc |-> "idle", kind |-> "none", size |-> 0, limit |-> 0, fault |-> "none",
             answer |-> "", stored |-> {}]

Received(kind, size, limit, fault) ==
  LET verdict == HandlerVerdict(kind, size, limit, fault)
      started == [NoUpload EXCEPT !.kind = kind, !.size = size, !.limit = limit,
                                  !.fault = fault]
  IN IF verdict = "put" THEN [started EXCEPT !.pc = "put"]
                        ELSE [started EXCEPT !.pc = "answered", !.answer = verdict]

(* objectStore.Put of what was read, under a fresh key; an error is a 500. *)
PutDone(u, applied, succeeded) ==
  [u EXCEPT !.pc = "answered",
            !.stored = IF applied THEN {BytesRead(u.size, Wrap(u.limit + 1))} ELSE {},
            !.answer = IF succeeded THEN "created" ELSE "failed"]

IsUpload(u) ==
  u \in [pc : {"idle", "put", "answered"}, kind : Kinds, size : Nat, limit : Nat,
         fault : Faults, stored : SUBSET Nat,
         answer : {"", "tooLarge", "noFile", "invalid", "created", "failed"}]

(* One limit is no limit but a ban: at the largest integer, limit + 1      *)
(* wraps around, nothing is read, and every image is as invalid as an      *)
(* empty file.                                                             *)
Banned(u) == u.limit = MaxInt

IsImage(u) == u.kind \notin {"other", "none"} /\ u.size > 0

(* What is in the store, whether or not the client was told, is the whole  *)
(* of an image; a client that was told it is there can rely on it; an      *)
(* image is not called invalid, and one whose request is within the limit  *)
(* and arrives is not turned away.                                         *)
JudgedRight(u) ==
  /\ u.stored # {} => u.stored = {u.size} /\ IsImage(u)
  /\ u.answer = "created" => u.stored # {}
  /\ u.answer = "invalid" => ~IsImage(u) \/ Banned(u)
  /\ IsImage(u) /\ u.size + Overhead <= u.limit /\ u.fault = "none" /\ ~Banned(u)
       => u.answer \in {"created", "failed"}
=============================================================================
