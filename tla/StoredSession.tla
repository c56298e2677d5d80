--------------------------- MODULE StoredSession ---------------------------
(***************************************************************************)
(* What the session promises whoever uses it: SignedIn is a token that is  *)
(* kept in the secure store for the server that issued it, and a session   *)
(* that is under way is left only in the ways it may be.  How a session is *)
(* found, probed, restored and cleaned up is none of it.                   *)
(***************************************************************************)
CONSTANTS Profiles, NoProfile, Endpoints, NoEndpoint, Tokens, NoToken,
          Origin,     \* the endpoint whose server issues a token
          Absent,     \* the entry of a profile for which nothing is stored,
          EntryOf,    \* that of each token, bound to its issuer,
          Unusable    \* and those that are no token's

VARIABLES phase,      \* away: between sessions, whatever the reason
          account,    \* the token of the account, while there is one
          profile,    \* the selected profile ...
          server,     \* ... and the endpoint that it has
          store       \* the entry of each profile

vars == <<phase, account, profile, server, store>>

Phases == {"away", "out", "entering", "in", "leaving"}
Stored == {EntryOf[t] : t \in Tokens}
Entries == {Absent} \cup Unusable \cup Stored

Init ==
  /\ phase = "away" /\ account = NoToken
  /\ profile = NoProfile /\ server = NoEndpoint
  /\ store \in [Profiles -> Entries]

\* What a step may do to an entry: erase it, or write that of some token.
Written(p) == store'[p] \in {store[p], Absent} \cup Stored

Here == UNCHANGED <<profile, server>>
Undisturbed == store'[profile] = store[profile]

\* Interrupted: by a restart, a switch, a failure or the end of the process.
\* Whoever was signed in can still be restored, unless they were leaving.
Leave ==
  /\ phase' = "away" /\ account' = NoToken
  /\ profile' \in Profiles \cup {NoProfile}
  /\ server' \in Endpoints \cup {NoEndpoint}
  /\ phase \in {"in", "out"} => Undisturbed
  /\ phase = "leaving" => store'[profile] \in {store[profile], Absent}

\* Credentials are asked for and sent, which only who is out may do.
Begin ==
  /\ phase = "out" /\ phase' = "entering"
  /\ Here /\ Undisturbed /\ UNCHANGED account

\* They are refused.
GiveUp ==
  /\ phase = "entering" /\ phase' = "out"
  /\ Here /\ Undisturbed /\ UNCHANGED account

\* Signed in, by credentials or by what was stored.
Enter ==
  /\ phase \in {"entering", "away"} /\ phase' = "in"
  /\ account' \in Tokens /\ Origin[account'] = server
  /\ store'[profile] = EntryOf[account']
  /\ Here

SignOut ==
  /\ phase = "in" /\ phase' = "leaving"
  /\ Here /\ Undisturbed /\ UNCHANGED account

\* Nothing is stored, or nothing any more.
Cleared ==
  /\ phase \in {"leaving", "away"} /\ phase' = "out" /\ account' = NoToken
  /\ store'[profile] = Absent
  /\ Here

\* What goes on meanwhile concerns other profiles.
Elsewhere ==
  /\ phase # "away"
  /\ Here /\ Undisturbed /\ UNCHANGED <<phase, account>>

Next ==
  /\ store' \in [Profiles -> Entries] /\ \A p \in Profiles : Written(p)
  /\ Leave \/ Begin \/ GiveUp \/ Enter \/ SignOut \/ Cleared \/ Elsewhere

Spec == Init /\ [][Next]_vars
=============================================================================
