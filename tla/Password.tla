-------------------------------- MODULE Password --------------------------------
(***************************************************************************)
(* Stored passwords (utils.cpp 47-110): a random salt, '$' and a hash are  *)
(* one string, which check_password takes apart again.  Strings are        *)
(* sequences of characters; what PBKDF2 computes is external, a text of    *)
(* base64 characters that differ when the password or the salt does.       *)
(***************************************************************************)
EXTENDS Naturals, Sequences

CONSTANTS Letters,    \* characters of salts, standing for the 62
          SaltLength, \* 16
          Passwords,  \* without a NUL, at which the handlers cut them
          Users

VARIABLES encoded, \* the column password, <<>> without a row
          given,   \* the password of the user
          login    \* what the last login was told: [user, password, ok], <<>> before it

vars == <<encoded, given, login>>

Char(c) == [char |-> c]
Dollar == Char("$")
NoPassword == <<>>

\* The characters of the commented-out list.
charsWithSymbols == {Char(c) : c \in Letters} \cup {Dollar}

\* internal::chars.
chars == {Char(c) : c \in Letters}

generate_random_string(len) == [1..len -> chars]

\* External; two characters.
hash_password(password, salt) == <<[hash |-> password], [hash |-> salt]>>

encode_password(password, salt) == salt \o <<Dollar>> \o hash_password(password, salt)

\* The loop over the stored string: a '$' makes the other one of the two strings the
\* one that the characters go to, so that a second '$' would swap them back.
Take(cut, c) == IF c = Dollar THEN [cut EXCEPT !.a = IF @ = "salt" THEN "hash" ELSE "salt"]
                ELSE IF cut.a = "salt" THEN [cut EXCEPT !.salt = Append(@, c)]
                ELSE [cut EXCEPT !.hash = Append(@, c)]

Cut(s) == LET cut[i \in 0..Len(s)] == IF i = 0 THEN [salt |-> <<>>, hash |-> <<>>, a |-> "salt"]
                                      ELSE Take(cut[i - 1], s[i])
          IN cut[Len(s)]

\* The differences of all characters or-ed together.
constant_time_compare(a, b) == Len(a) = Len(b) /\ \A i \in DOMAIN a : a[i] = b[i]

check_password(password, stored) ==
  LET cut == Cut(stored) IN constant_time_compare(hash_password(password, cut.salt), cut.hash)

-----------------------------------------------------------------------------
Init == /\ encoded = [u \in Users |-> NoPassword]
        /\ given = [u \in Users |-> NoPassword]
        /\ login = <<>>

Register(u, p) == /\ encoded[u] = NoPassword
                  /\ \E salt \in generate_random_string(SaltLength) :
                        encoded' = [encoded EXCEPT ![u] = encode_password(p, salt)]
                  /\ given' = [given EXCEPT ![u] = p]
                  /\ UNCHANGED login

Login(u, p) == /\ encoded[u] # NoPassword
               /\ login' = [user |-> u, password |-> p, ok |-> check_password(p, encoded[u])]
               /\ UNCHANGED <<encoded, given>>

Next == \E u \in Users, p \in Passwords : Register(u, p) \/ Login(u, p)

Spec == Init /\ [][Next]_vars

-----------------------------------------------------------------------------
(* A user logs in with the password of the registration and no other,      *)
(* whatever salt was drawn and whatever characters the password has.       *)
LoginNeedsThePassword ==
  DOMAIN login # {} => (login.ok <=> login.password = given[login.user])
================================================================================
