------------------------------- MODULE Cookie -------------------------------
(***************************************************************************)
(* The cookie objects of src/Cookie.cpp and the Set-Cookie header made of  *)
(* them. A text is a sequence of bytes. Copies, assignments and swaps make *)
(* equal values and need no operator; an explicit null pointer for an      *)
(* authority or a path is an empty text.                                   *)
(***************************************************************************)
EXTENDS Integers, Sequences

\* The constructors of Credentials: the ones with an Expires persist. An absent
\* argument is an empty text.
Credentials(authority, path, expires) ==
    [authority_ |-> authority, path_ |-> path, expires_ |-> expires,
     persist_ |-> expires # <<>>, secure_ |-> FALSE]

\* The constructors of Cookie.
NewCookie(name, value, credentials) == [name_ |-> name, value_ |-> value, credentials_ |-> credentials]

\* to_string of both: the parts of the header, in order. The age is fixed and
\* neither expires_ nor secure_ is in it.
MaxAge == 31536000
HeaderOf(c) ==
    [name |-> c.name_, value |-> c.value_, Path |-> c.credentials_.path_, Version |-> 1,
     MaxAge |-> MaxAge, Domain |-> c.credentials_.authority_, HttpOnly |-> TRUE]
=============================================================================
