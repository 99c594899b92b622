----------------------------- MODULE MCTokenVault -----------------------------
(* TokenVault on small instances. *)
EXTENDS TokenVault

CONSTANTS s1, r1, r2, r3, person, ssn, ann, bob

a == [type |-> person, value |-> ann]
b == [type |-> person, value |-> bob]
c == [type |-> ssn, value |-> ann]

\* All requests in one session; the first caller may not see SSNs.
OneSession == [r \in Requests |-> s1]
Roles == [r \in Requests |-> IF r = r1 THEN {person} ELSE {person, ssn}]

\* A body of two messages and one with two types in a message.
Bodies == {<< <<b>>, <<a>> >>, << <<c, a>> >>}

\* One turn after another; a message may hold no PII.
Turns == {<< <<a>> >>, << <<b, c>>, <<a>> >>, << << >> >>}
===============================================================================
