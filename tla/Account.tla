------------------------------- MODULE Account -------------------------------
(***************************************************************************)
(* What login, updateUser and the session check promise together, with no  *)
(* salts, fingerprints, cookies or handlers: an account, the browsers      *)
(* signed in to it, and those let in by a check that still holds.  Every   *)
(* change ends all of that at once, for requests under way as well.        *)
(*                                                                         *)
(* Sessions implements it.                                                 *)
(***************************************************************************)
CONSTANTS Browsers, Names, Passwords

Credentials == [name : Names, pw : Passwords]

VARIABLES
    credentials,   \* the name and password that sign in now
    signedIn,      \* browsers whose session the panel accepts
    admitted,      \* browsers about to be signed in
    changing,      \* browsers whose change is stored and not yet answered
    shown          \* the credentials each browser has shown or set

vars == <<credentials, signedIn, admitted, changing, shown>>

Init ==
    /\ credentials \in Credentials
    /\ signedIn = {} /\ admitted = {} /\ changing = {}
    /\ shown = [b \in Browsers |-> {}]

\* The browser shows the credentials that hold at this moment.
Admit(b) ==
    /\ admitted' = admitted \cup {b}
    /\ shown' = [shown EXCEPT ![b] = @ \cup {credentials}]
    /\ UNCHANGED <<credentials, signedIn, changing>>

\* Only who has been admitted, with no change since, is signed in.
SignIn(b) ==
    /\ b \in admitted
    /\ signedIn' = signedIn \cup {b}
    /\ admitted' \in {admitted, admitted \ {b}}
    /\ UNCHANGED <<credentials, changing, shown>>

\* It logs out, or an answer that comes too late replaces its session.
SignOut(b) ==
    /\ signedIn' = signedIn \ {b}
    /\ UNCHANGED <<credentials, admitted, changing, shown>>

\* A request ends without a session.
Leave(b) ==
    /\ admitted' \in {admitted, admitted \ {b}}
    /\ changing' \in {changing, changing \ {b}}
    /\ UNCHANGED <<credentials, signedIn, shown>>

\* A browser changes the credentials: nobody but it is signed in again
\* without showing the new ones.
Change(b, c) ==
    /\ shown[b] # {}
    /\ credentials' = c
    /\ signedIn' = {} /\ admitted' = {b}
    /\ changing' = changing \cup {b}
    /\ shown' = [shown EXCEPT ![b] = @ \cup {c}]

\* The command line changes them.
Replace(c) ==
    /\ credentials' = c
    /\ signedIn' = {} /\ admitted' = {}
    /\ UNCHANGED <<changing, shown>>

\* A password that was shown in cleartext is stored as a hash.  If a change came
\* between, it is the old password that is stored again.
Upgrade(b) ==
    /\ \E c \in shown[b] : credentials' = [credentials EXCEPT !.pw = c.pw]
    /\ signedIn' = {} /\ admitted' \in {{}, {b}}
    /\ UNCHANGED <<changing, shown>>

\* The answer to a change admits its browser anew, to whatever holds by then.
Reload(b) ==
    /\ b \in changing
    /\ admitted' = admitted \cup {b}
    /\ changing' \in {changing, changing \ {b}}
    /\ UNCHANGED <<credentials, signedIn, shown>>

Next ==
    \/ \E b \in Browsers :
          \/ Admit(b) \/ SignIn(b) \/ SignOut(b) \/ Leave(b)
          \/ Upgrade(b) \/ Reload(b)
          \/ \E c \in Credentials : Change(b, c)
    \/ \E c \in Credentials : Replace(c)

Spec == Init /\ [][Next]_vars
=============================================================================
