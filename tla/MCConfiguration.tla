-------------------------- MODULE MCConfiguration --------------------------
(* A small panel for Configuration: three domains, three hosts, two ports. *)
EXTENDS Configuration

SomeCovers == {<<"*.example", "a.example">>, <<"*.example", "b.example">>}
SomeFits == SomeCovers \cup {<<"*.example", "x.a.example">>}

(* c1 names what c2 covers; every service bound, the first one not, and    *)
(* all to the same certificate.                                            *)
SomeNames == [c \in Certificate |-> IF c = "c1" THEN {"a.example"} ELSE {"*.example"}]
SomeExpires == [c \in Certificate |-> IF c = "c1" THEN 1 ELSE 2]
Binding(a, b, c) == [id \in ServiceId |-> IF id = "s1" THEN a ELSE IF id = "s2" THEN b ELSE c]
SomeBindings == {Binding("c1", "c2", "c3"), Binding("c3", "c1", "none"), Binding("none", "c2", "c1")}

(* A file with numbers missing and given twice, a default rule in front,   *)
(* and a user who is disabled.                                             *)
OldFile ==
  [services |-> <<Service("s1", "p", "*", TRUE, 1, 1), Service("s2", "p", "*.example", TRUE, 0, 2),
                  Service("s3", "p", "*.example", TRUE, 1, 3)>>,
   users |-> <<User("admin", "admin", TRUE, None), User("guest", "guest", FALSE, "secret")>>]

SomeFiles == {OldFile}

Bounds(s, u, l, f) == [services |-> s, users |-> u, logins |-> l, faults |-> f]
SomeWorks == {Bounds(2, 0, 0, 1), Bounds(0, 2, 0, 1), Bounds(0, 0, 8, 0)}
LoginWorks == {Bounds(0, 0, 8, 0)}
=============================================================================
