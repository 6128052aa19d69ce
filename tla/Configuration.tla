---------------------------- MODULE Configuration ----------------------------
(***************************************************************************)
(* config.Load: the settings that the checks and the other components      *)
(* depend on, from the environment of the process.                         *)
(*                                                                         *)
(* An environment gives every setting a value or NULL: a variable that is  *)
(* not set, empty, or not a number (a duration, a Boolean) is the same to  *)
(* the code.  Durations are in minutes.  A text is set to "some", or is    *)
(* one of the words the code knows.                                        *)
(***************************************************************************)
EXTENDS Integers

CONSTANTS NULL, DefaultUploadMax  \* 10 MiB

Getenv(value, fallback) == IF value = NULL THEN fallback ELSE value

Load(env) ==
  [databaseURL    |-> Getenv(env.databaseURL, ""),
   jwtSecret      |-> Getenv(env.jwtSecret, ""),
   accessTTL      |-> Getenv(env.accessTTL, 24 * 60),
   refreshTTL     |-> Getenv(env.refreshTTL, 30 * 24 * 60),
   uploadMax      |-> Getenv(env.uploadMax, DefaultUploadMax),
   loginLimit     |-> Getenv(env.loginLimit, 10),
   loginWindow    |-> Getenv(env.loginWindow, 1),
   cookieName     |-> Getenv(env.cookieName, "refresh_token"),
   cookieSecure   |-> Getenv(env.cookieSecure, TRUE),
   cookieSameSite |-> Getenv(env.cookieSameSite, "lax"),
   bucket         |-> Getenv(env.bucket, "blog")]

(* The checks at the end of Load; the process ends when one fails.         *)
Accepts(cfg) ==
  /\ cfg.databaseURL # "" /\ cfg.jwtSecret # ""
  /\ cfg.accessTTL > 0
  /\ cfg.refreshTTL > 0 /\ cfg.refreshTTL > cfg.accessTTL
  /\ cfg.cookieSameSite \in {"lax", "strict", "none"}
  /\ cfg.cookieSameSite = "none" => cfg.cookieSecure
  /\ cfg.cookieName # ""
  /\ cfg.bucket # ""
  /\ cfg.uploadMax > 0
  /\ cfg.loginLimit >= 0
  /\ cfg.loginWindow > 0
=============================================================================
