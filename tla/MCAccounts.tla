------------------------------ MODULE MCAccounts ------------------------------
EXTENDS Accounts, TLC

CONSTANTS u1, u2, e1, e2, e3

AtHome == u1 :> e1

(***************************************************************************)
(* The mixes of requests a behaviour may consist of: newcomers and their   *)
(* links, an address that two people want, attempts to sign in, and        *)
(* passwords that change while sessions are ended.                         *)
(***************************************************************************)
Mix(f) == f @@ [kind \in Kinds |-> 0]
Mixes ==
    {Mix("register" :> 1 @@ "resend" :> 1 @@ "verify" :> 2),
     Mix("register" :> 1 @@ "login" :> 2 @@ "address" :> 1 @@ "verify" :> 1),
     Mix("login" :> 5),
     Mix("login" :> 1 @@ "address" :> 2 @@ "verify" :> 2),
     Mix("login" :> 2 @@ "forgot" :> 1 @@ "reset" :> 1 @@ "password" :> 1),
     Mix("login" :> 2 @@ "everywhere" :> 1 @@ "password" :> 1)}
=============================================================================
