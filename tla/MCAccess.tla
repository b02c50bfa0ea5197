------------------------------ MODULE MCAccess ------------------------------
(* Access for TLC: two users, a login token that is not in use yet. *)
EXTENDS Access

CONSTANTS u1, u2, k1, k2, k3, c1

First == [u \in {u1, u2} |-> IF u = u1 THEN k1 ELSE k2]

With(headers, cookies) == [headers |-> headers, cookies |-> cookies]

(* Nothing; a cookie; a token that comes into use later; another token in  *)
(* both places; too many headers beside a cookie.                          *)
Pairs == {With(<<>>, <<>>),
          With(<<>>, << <<k1>> >>),
          With(<< <<k3>> >>, <<>>),
          With(<< <<k2>> >>, << <<k1>> >>),
          With(<<Forged, <<k2>> >>, << <<u1, c1>> >>)}

(* Every kind of account, beside an admin or a plain user. *)
Accounts == [u \in {u1, u2} |->
               IF u = u1 THEN {{"user", "admin"}, {"user", "viewall"}, {"user", "am"},
                               {"user"}, {"am"}, Damaged}
               ELSE {{"user", "admin"}, {"user"}}]

(* What an admin asks for: a list that is granted and one that is refused. *)
Lists == {{"user", "am"}, {"root"}}

Symmetry == Permutations(Request)
=============================================================================
