--------------------------- MODULE MCIdempotency ----------------------------
(* A small instance of ServiceSide. *)
EXTENDS ServiceSide, TLC

CONSTANTS c1, c2, c3, c4, f1, f2

Term(kind, ends, later) == [kind |-> kind, ends |-> ends, later |-> later]

\* One penalty of each kind, the suspension starting later.
SomeTerms == {Term("FEATURE_RESTRICTION", TRUE, FALSE), Term("TEMPORARY_SUSPENSION", TRUE, TRUE),
              Term("PERMANENT_BAN", FALSE, FALSE)}

\* Two avatars that are there, or a new item of the portfolio beside evidence.
Avatar == [purpose |-> "AVATAR", ready |-> TRUE]
Item == [purpose |-> "PORTFOLIO", ready |-> FALSE]
Evidence == [purpose |-> "REPORT_EVIDENCE", ready |-> TRUE]
SomeUploads == {f1 :> Avatar @@ f2 :> Avatar, f1 :> Item @@ f2 :> Evidence}

\* The calls stand for requests and for rows of the other parts as well, which
\* keeps the permutations few.
Symmetry == Permutations({c1, c2}) \cup Permutations({c3, c4})
=============================================================================
