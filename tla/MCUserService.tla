--------------------------- MODULE MCUserService ----------------------------
(***************************************************************************)
(* Small instances of UserService.                                         *)
(***************************************************************************)
EXTENDS UserService, TLC

CONSTANTS alice, bob, carl, l1, f1, f2, f3, f4, o1, p1, p2, p3, d1, g1, s1,
          ann, ben, ann2, secret, secret2

Request(kind) ==
    [kind |-> kind, name |-> Absent, email |-> Absent, password |-> Absent,
     access |-> Absent, refresh |-> Absent, target |-> Absent]

Register(n, e, p) ==
    [Request("register") EXCEPT !.name = n, !.email = e, !.password = p]
Login(e, p) == [Request("login") EXCEPT !.email = e, !.password = p]
Refresh(a, t) == [Request("refresh") EXCEPT !.access = a, !.refresh = t]
Logout(a, t) == [Request("logout") EXCEPT !.access = a, !.refresh = t]
Patch(a, id, e, p, n) == [Request("patch") EXCEPT !.access = a, !.target = id, !.name = n, !.email = e, !.password = p]
Get(a, id) == [Request("get") EXCEPT !.access = a, !.target = id]
List(a) == [Request("list") EXCEPT !.access = a]
Delete(a, id) == [Request("delete") EXCEPT !.access = a, !.target = id]

\* The session of a registration is refreshed twice at once and logged out
\* of meanwhile, one of the new sessions is refreshed again, and bob presents
\* alice's refresh token; alice logs in as well.
Rotations ==
    (alice :> Register(ann, ann, secret)) @@
    (bob :> Register(ben, ben, secret)) @@
    (f1 :> Refresh(alice, alice)) @@
    (f2 :> Refresh(alice, alice)) @@
    (f3 :> Refresh(alice, f1)) @@
    (f4 :> Refresh(bob, alice)) @@
    (o1 :> Logout(alice, alice)) @@
    (l1 :> Login(ann, secret))

\* Two registrations with one email, edits of alice's row that overlap, one of
\* them taking bob's email, a login with the new password, a deletion, and
\* readers; the second of the registrations with one email also sends a refresh
\* without a refresh token and a PATCH of another user's row.
Profiles ==
    (alice :> Register(ann, ann, secret)) @@
    (bob :> Register(ben, ben, secret)) @@
    (p1 :> Patch(alice, alice, ben, Absent, Absent)) @@
    (p2 :> Patch(alice, alice, Absent, secret2, Absent)) @@
    (p3 :> Patch(carl, bob, Absent, Absent, ann2)) @@
    (l1 :> Login(ann, secret2)) @@
    (f1 :> Refresh(carl, Absent)) @@
    (g1 :> Get(alice, alice)) @@
    (s1 :> List(bob)) @@
    (d1 :> Delete(alice, alice)) @@
    (carl :> Register(ben, ann, secret2))

\* TLC keeps the value of a definition but evaluates the body of what a cfg
\* substitutes for a constant at every use: the cfgs name these.
RotationsRequests == Rotations
ProfilesRequests == Profiles
=============================================================================
