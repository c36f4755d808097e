------------------------------ MODULE Sessions ------------------------------
(***************************************************************************)
(* The settings row (password hash, signing key) and the cookie sessions   *)
(* that are signed with it.                                                *)
(*                                                                         *)
(* A session is nothing but its cookie: the server keeps no table of them. *)
(* A cookie is as good as the key it was signed with.  Keys and session    *)
(* ids are random in the code and successive numbers here; what matters    *)
(* is that they do not repeat.                                             *)
(***************************************************************************)
EXTENDS Naturals

CONSTANTS Password,    \* passwords of at least eight characters
          NoPassword,  \* no hash in the database; an empty password
          MaxKey       \* bound: signing keys ever made

ASSUME NoPasswordAssumption == NoPassword \notin Password
ASSUME MaxKeyAssumption == MaxKey \in Nat \ {0}

VARIABLES hash,     \* the password whose hash is stored
          key,      \* the signing key, in the row and in the running server
          lastSid   \* the last session id made

sessionVars == <<hash, key, lastSid>>

\* NoCookie is also what a cookie that no key has signed amounts to.
Cookie == [key : 0 .. MaxKey, sid : Nat]
NoCookie == [key |-> 0, sid |-> 0]
Anonymous == 0

SessionTypeOK == /\ hash \in Password \cup {NoPassword}
                 /\ key \in 1 .. MaxKey
                 /\ lastSid \in Nat

\* The schema's only row of settings.
SessionInit == hash = NoPassword /\ key = 1 /\ lastSid = 0

-----------------------------------------------------------------------------

IsAuthenticated(c) == c.key = key

SessionID(c) == IF IsAuthenticated(c) THEN c.sid ELSE Anonymous

\* There is a cookie, of a key that is no longer used.  The session library
\* keeps that error for the rest of the request, also after SetAuthenticated.
Unreadable(c) == c # NoCookie /\ ~IsAuthenticated(c)

\* A session that is still good keeps its id, any other cookie gives way to a
\* new one.  The value is the cookie that is sent back.
Authenticated(c) ==
  IF IsAuthenticated(c) THEN c ELSE [key |-> key, sid |-> lastSid + 1]

SetAuthenticated(c) ==
  lastSid' = IF IsAuthenticated(c) THEN lastSid ELSE lastSid + 1

IsPasswordSet == hash # NoPassword

\* GetPasswordHash and bcrypt; neither an empty password nor an empty hash is
\* ever good.
VerifyPassword(pw) == pw # NoPassword /\ pw = hash

\* SettingsRepo.SetPasswordHash: an UPDATE, whatever the row held.
SetPasswordHash(pw) == hash' = pw

\* A random key that is stored in place of the old one.
FreshKey == key < MaxKey /\ key' = key + 1

=============================================================================
