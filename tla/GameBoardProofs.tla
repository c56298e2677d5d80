-------------------------- MODULE GameBoardProofs --------------------------
(***************************************************************************)
(* For any accounts, games and number of fetches in flight: what is shown  *)
(* belongs to the account that is signed in; the board shown or on its way *)
(* is the one selected; and whatever is said to be loading has exactly one *)
(* fetch that will end it.                                                 *)
(***************************************************************************)
EXTENDS GameBoard, TLAPS

\* The screen with nothing on it is well typed.
LEMMA EmptyTypes == NoGames \in GameLists /\ EmptyBoard \in Boards
BY DEF NoGames, EmptyBoard, GameLists, Boards, Whoever

\* A fetch in flight is not a free slot, and has the fields of a fetch.
LEMMA FetchFields ==
  ASSUME NEW k \in Fetches \cup {Free}
  PROVE  /\ k # Free => k \in Fetches
         /\ Free \notin Fetches
         /\ k \in Fetches => /\ k.kind \in Kinds /\ k.live \in BOOLEAN
                             /\ k.same \in BOOLEAN /\ k.stage \in {"token", "reply"}
                             /\ k.of \in Whoever /\ k.game \in Games \cup {NoGame}
                             /\ k.stage = "reply" => k.of \in Accounts
BY DEF Fetches, Free, Kinds, Whoever

\* A fetch that is no longer wanted, or that has lost its session, is still one.
LEMMA FetchUpdates ==
  ASSUME NEW k \in Fetches
  PROVE  /\ [k EXCEPT !.live = FALSE] \in Fetches
         /\ [k EXCEPT !.live = FALSE].live = FALSE
         /\ [k EXCEPT !.same = FALSE] \in Fetches
         /\ k.of \in Accounts => [k EXCEPT !.stage = "reply"] \in Fetches
BY DEF Fetches, Kinds

-----------------------------------------------------------------------------
(* Fetches and whose they are                                              *)

\* Making fetches unwanted keeps them fetches, and those still wanted own.
LEMMA DeadOwn ==
  ASSUME NEW calls \in CallMaps, NEW kinds, NEW who, OwnCalls(calls, who)
  PROVE  Dead(kinds, calls) \in CallMaps /\ OwnCalls(Dead(kinds, calls), who)
<1> DEFINE D == Dead(kinds, calls)
<1>1. ASSUME NEW c \in Calls
      PROVE  D[c] \in Fetches \cup {Free} /\ OwnCall(D[c], who)
  <2>1. CASE calls[c].kind \in kinds /\ calls[c] \in Fetches
    <3>1. D[c] = [calls[c] EXCEPT !.live = FALSE]
      BY <2>1 DEF Dead
    <3>2. D[c] \in Fetches /\ D[c].live = FALSE
      BY <2>1, <3>1, FetchUpdates
    <3> QED BY <3>2 DEF OwnCall
  <2>2. CASE calls[c].kind \notin kinds
    BY <2>2 DEF Dead, CallMaps, OwnCalls
  <2>3. CASE calls[c].kind \in kinds /\ calls[c] = Free
    <3>1. D[c] = [Free EXCEPT !.live = FALSE]
      BY <2>3 DEF Dead
    <3>2. D[c] = Free
      BY <3>1 DEF Free
    <3> QED BY <3>2 DEF OwnCall
  <2> QED BY <2>1, <2>2, <2>3 DEF CallMaps
<1>2. D = [c \in Calls |-> D[c]]
  BY DEF Dead
<1> QED BY <1>1, <1>2 DEF CallMaps, OwnCalls

\* When all are made unwanted, whoever may own them.
LEMMA AllDead ==
  ASSUME NEW calls \in CallMaps, NEW who
  PROVE  OwnCalls(Dead(Kinds, calls), who)
<1>1. ASSUME NEW c \in Calls
      PROVE  OwnCall(Dead(Kinds, calls)[c], who)
  <2>1. CASE calls[c] = Free
    <3>1. Dead(Kinds, calls)[c] = Free
      BY <2>1 DEF Dead, Free, Kinds
    <3> QED BY <3>1 DEF OwnCall
  <2>2. CASE calls[c] \in Fetches
    <3>1. Dead(Kinds, calls)[c] = [calls[c] EXCEPT !.live = FALSE]
      BY <2>2, FetchFields DEF Dead
    <3> QED BY <2>2, <3>1, FetchUpdates DEF OwnCall
  <2> QED BY <2>1, <2>2 DEF CallMaps
<1> QED BY <1>1 DEF OwnCalls

\* A new fetch is one, and belongs to whoever asks for it.
LEMMA AskingOwn ==
  ASSUME NEW kind \in Kinds, NEW g \in Games \cup {NoGame}, NEW who \in Whoever
  PROVE  /\ Asking(kind, g, who) \in Fetches
         /\ OwnCall(Asking(kind, g, who), who)
BY DEF Asking, Fetches, OwnCall, Whoever, Kinds

\* Putting an own fetch, or none, into a slot.
LEMMA PutOwn ==
  ASSUME NEW calls \in CallMaps, NEW c \in Calls, NEW who, OwnCalls(calls, who),
         NEW k \in Fetches \cup {Free}, OwnCall(k, who)
  PROVE  /\ [calls EXCEPT ![c] = k] \in CallMaps
         /\ OwnCalls([calls EXCEPT ![c] = k], who)
BY DEF CallMaps, OwnCalls

\* A fetch that is not in use is anybody's.
LEMMA FreeOwn == ASSUME NEW who PROVE OwnCall(Free, who)
BY DEF OwnCall

\* loadGames() leaves the screen empty and asks for a list of whoever is
\* signed in.
LEMMA LoadOwn ==
  ASSUME NEW calls \in CallMaps, NEW who \in Whoever, OwnCalls(calls, who),
         Load(calls, who)
  PROVE  /\ call' \in CallMaps /\ OwnCalls(call', who)
         /\ games' = NoGames /\ selected' = NoGame /\ board' = EmptyBoard
         /\ listStatus' = "loading" /\ boardStatus' = "idle" /\ errorText' = "none"
<1> DEFINE D == Dead({"list", "board"}, calls)
<1>1. PICK c \in Calls : call' = [D EXCEPT ![c] = Asking("list", NoGame, who)]
  BY DEF Load
<1>2. D \in CallMaps /\ OwnCalls(D, who)
  BY DeadOwn
<1>3. Asking("list", NoGame, who) \in Fetches /\ OwnCall(Asking("list", NoGame, who), who)
  BY AskingOwn DEF Kinds
<1>4. call' \in CallMaps /\ OwnCalls(call', who)
  BY <1>1, <1>2, <1>3, PutOwn
<1> QED BY <1>4 DEF Load

\* The board that is asked for is the user's, and nothing is shown until it comes.
LEMMA FetchBoardOwn ==
  ASSUME call \in CallMaps, Exposed \in Whoever, OwnCalls(call, Exposed),
         NEW g \in Games \cup {NoGame}, FetchBoard(g)
  PROVE  /\ call' \in CallMaps /\ OwnCalls(call', Exposed)
         /\ board' = EmptyBoard /\ boardStatus' = "loading" /\ errorText' = "none"
<1> DEFINE D == Dead({"board"}, call)
<1>1. PICK c \in Calls : call' = [D EXCEPT ![c] = Asking("board", g, Exposed)]
  BY DEF FetchBoard
<1>2. D \in CallMaps /\ OwnCalls(D, Exposed)
  BY DeadOwn
<1>3. Asking("board", g, Exposed) \in Fetches /\ OwnCall(Asking("board", g, Exposed), Exposed)
  BY AskingOwn DEF Kinds
<1>4. call' \in CallMaps /\ OwnCalls(call', Exposed)
  BY <1>1, <1>2, <1>3, PutOwn
<1> QED BY <1>4 DEF FetchBoard

-----------------------------------------------------------------------------
(* The session changes                                                     *)

\* Whatever the change, if nobody is shown as signed in before it or after:
\* the screen is emptied, or loaded for whoever has just signed in.
LEMMA SyncOwn ==
  ASSUME Ownership, Exposed' \in Whoever, session' \in Whoever,
         masked' \in BOOLEAN, open' \in BOOLEAN,
         Exposed = NoAccount \/ Exposed' = NoAccount,
         NEW calls \in CallMaps, OwnCalls(calls, Exposed), Sync(calls)
  PROVE  Ownership'
<1>1. CASE Exposed' = NoAccount
  <2>1. signedIn' = FALSE /\ Reset(calls)
    BY <1>1 DEF Sync
  <2>2. call' \in CallMaps
    BY <2>1, DeadOwn, OwnCalls(calls, Exposed) DEF Reset
  <2>3. OwnCalls(call', Exposed')
    BY <2>1, AllDead DEF Reset
  <2>4. TypeOK'
    BY <2>1, <2>2, EmptyTypes DEF Reset, TypeOK, Whoever, Texts
  <2>5. ShownIsOwn'
    BY <2>1 DEF Reset, ShownIsOwn, NoGames, EmptyBoard
  <2> QED BY <1>1, <2>1, <2>3, <2>4, <2>5 DEF Ownership, OwnCalls
<1>2. CASE Exposed' # NoAccount
  <2>1. Exposed = NoAccount /\ ~signedIn
    BY <1>2 DEF Ownership
  <2>2. OwnCalls(calls, Exposed')
    BY <2>1 DEF OwnCalls, OwnCall
  <2>3. games.of = NoAccount /\ board.of = NoAccount /\ names = NoAccount
    BY <2>1 DEF Ownership, ShownIsOwn
  <2>4. CASE open /\ Reloads
    <3>1. signedIn' = TRUE /\ Load(calls, Exposed') /\ UNCHANGED <<catalogStatus, names>>
      BY <1>2, <2>1, <2>4 DEF Sync
    <3>2. /\ call' \in CallMaps /\ OwnCalls(call', Exposed')
          /\ games' = NoGames /\ selected' = NoGame /\ board' = EmptyBoard
          /\ listStatus' = "loading" /\ boardStatus' = "idle" /\ errorText' = "none"
      BY <2>2, <3>1, LoadOwn
    <3>3. TypeOK'
      BY <3>1, <3>2, EmptyTypes DEF Ownership, TypeOK, Texts
    <3>4. ShownIsOwn'
      BY <2>3, <3>1, <3>2 DEF ShownIsOwn, NoGames, EmptyBoard
    <3> QED BY <1>2, <3>1, <3>2, <3>3, <3>4 DEF Ownership, OwnCalls
  <2>5. CASE ~(open /\ Reloads)
    <3>1. /\ signedIn' = TRUE /\ call' = calls
          /\ UNCHANGED <<listStatus, boardStatus, catalogStatus, errorText, games,
                        selected, board, names>>
      BY <1>2, <2>1, <2>5 DEF Sync
    <3>2. TypeOK'
      BY <3>1 DEF Ownership, TypeOK
    <3>3. ShownIsOwn'
      BY <2>3, <3>1 DEF ShownIsOwn
    <3> QED BY <1>2, <2>2, <3>1, <3>2, <3>3 DEF Ownership, OwnCalls
  <2> QED BY <2>4, <2>5
<1> QED BY <1>1, <1>2

\* The controller sees an account or none.
LEMMA ExposedType == ASSUME TypeOK PROVE Exposed \in Whoever
BY DEF TypeOK, Exposed, Whoever

\* The same after a step.
LEMMA ExposedTypeNext == ASSUME session' \in Whoever PROVE Exposed' \in Whoever
BY DEF Exposed, Whoever

\* Sign-ins, the ends of sessions, masking and other changes of state.
LEMMA SessionStep ==
  ASSUME Ownership, SignIn \/ EndSession \/ MaskChanges \/ StateChanges
  PROVE  Ownership'
<1>1. call \in CallMaps /\ OwnCalls(call, Exposed) /\ Exposed \in Whoever
  BY ExposedType DEF Ownership, TypeOK, CallMaps
<1>2. CASE SignIn
  <2>1. Exposed = NoAccount
    BY <1>2 DEF SignIn, Exposed
  <2>2. session' \in Whoever /\ masked' \in BOOLEAN /\ open' \in BOOLEAN
    BY <1>2 DEF SignIn, Ownership, TypeOK, Whoever
  <2> QED BY <1>1, <1>2, <2>1, <2>2, SyncOwn, ExposedTypeNext DEF SignIn
<1>3. CASE EndSession
  <2> DEFINE E == [c \in Calls |-> IF call[c] = Free THEN Free
                                   ELSE [call[c] EXCEPT !.same = FALSE]]
  <2>1. Exposed' = NoAccount
    BY <1>3 DEF EndSession, Exposed
  <2>2. session' \in Whoever /\ masked' \in BOOLEAN /\ open' \in BOOLEAN
    BY <1>3 DEF EndSession, Ownership, TypeOK, Whoever
  <2>3. ASSUME NEW c \in Calls
        PROVE  E[c] \in Fetches \cup {Free} /\ OwnCall(E[c], Exposed)
    <3>1. CASE call[c] = Free
      BY <3>1, FreeOwn
    <3>2. CASE call[c] # Free
      <4>1. call[c] \in Fetches /\ OwnCall(call[c], Exposed)
        BY <1>1, <3>2 DEF CallMaps, OwnCalls
      <4>2. E[c] = [call[c] EXCEPT !.same = FALSE] /\ E[c] \in Fetches
        BY <3>2, <4>1, FetchUpdates
      <4>3. /\ E[c].same = FALSE /\ E[c].live = call[c].live
            /\ E[c].stage = call[c].stage /\ E[c].of = call[c].of
        BY <4>1, <4>2 DEF Fetches
      <4> QED BY <3>2, <4>1, <4>2, <4>3 DEF OwnCall
    <3> QED BY <3>1, <3>2
  <2>4. E \in CallMaps /\ OwnCalls(E, Exposed)
    BY <2>3 DEF CallMaps, OwnCalls
  <2>5. Sync(E)
    BY <1>3 DEF EndSession
  <2> HIDE DEF E
  <2> QED BY <2>1, <2>2, <2>4, <2>5, SyncOwn, ExposedTypeNext
<1>4. CASE MaskChanges
  <2>1. Exposed = NoAccount \/ Exposed' = NoAccount
    BY <1>4 DEF MaskChanges, Exposed, Ownership, TypeOK
  <2>2. session' \in Whoever /\ masked' \in BOOLEAN /\ open' \in BOOLEAN
    BY <1>4 DEF MaskChanges, Ownership, TypeOK, Whoever
  <2> QED BY <1>1, <1>4, <2>1, <2>2, SyncOwn, ExposedTypeNext DEF MaskChanges
<1>5. CASE StateChanges
  <2>1. Exposed = NoAccount
    BY <1>5 DEF StateChanges
  <2>2. session' \in Whoever /\ masked' \in BOOLEAN /\ open' \in BOOLEAN
    BY <1>5 DEF StateChanges, sessionVars, Ownership, TypeOK, Whoever
  <2> QED BY <1>1, <1>5, <2>1, <2>2, SyncOwn, ExposedTypeNext DEF StateChanges
<1> QED BY <1>2, <1>3, <1>4, <1>5

-----------------------------------------------------------------------------
(* The screen                                                              *)

\* What the screen asks for keeps everything its user's.
LEMMA ScreenStep ==
  ASSUME Ownership,
         LoadGames \/ (\E g \in Games : OpenGame(g)) \/ Retry \/ CloseGame
           \/ OpenScreen \/ CloseScreen
  PROVE  Ownership'
<1>1. call \in CallMaps /\ OwnCalls(call, Exposed) /\ Exposed \in Whoever
  BY ExposedType DEF Ownership, TypeOK, CallMaps
<1>2. ASSUME UNCHANGED <<session, masked, signedIn, catalogStatus, names>>,
             open' \in BOOLEAN, Load(call, Exposed)
      PROVE  Ownership'
  <2>1. /\ call' \in CallMaps /\ OwnCalls(call', Exposed)
        /\ games' = NoGames /\ selected' = NoGame /\ board' = EmptyBoard
        /\ listStatus' = "loading" /\ boardStatus' = "idle" /\ errorText' = "none"
    BY <1>1, <1>2, LoadOwn
  <2>2. Exposed' = Exposed
    BY <1>2 DEF Exposed
  <2>3. TypeOK'
    BY <1>2, <2>1, EmptyTypes DEF Ownership, TypeOK, Texts
  <2>4. ShownIsOwn'
    BY <1>2, <2>1, <2>2 DEF Ownership, ShownIsOwn, NoGames, EmptyBoard
  <2> QED BY <1>2, <2>1, <2>2, <2>3, <2>4 DEF Ownership, OwnCalls
<1>3. ASSUME NEW g \in Games \cup {NoGame}, FetchBoard(g), selected' \in Games \cup {NoGame},
             UNCHANGED <<sessionVars, signedIn, listStatus, catalogStatus, games, names>>
      PROVE  Ownership'
  <2>1. /\ call' \in CallMaps /\ OwnCalls(call', Exposed)
        /\ board' = EmptyBoard /\ boardStatus' = "loading" /\ errorText' = "none"
    BY <1>1, <1>3, FetchBoardOwn
  <2>2. Exposed' = Exposed
    BY <1>3 DEF Exposed, sessionVars
  <2>3. TypeOK'
    BY <1>3, <2>1, EmptyTypes DEF Ownership, TypeOK, Texts, sessionVars
  <2>4. ShownIsOwn'
    BY <1>3, <2>1, <2>2 DEF Ownership, ShownIsOwn, EmptyBoard
  <2> QED BY <1>3, <2>1, <2>2, <2>3, <2>4 DEF Ownership, OwnCalls
<1>4. CASE LoadGames
  BY <1>2, <1>4 DEF LoadGames, sessionVars, Ownership, TypeOK
<1>5. ASSUME NEW g \in Games, OpenGame(g) PROVE Ownership'
  BY <1>3, <1>5 DEF OpenGame
<1>6. CASE Retry
  <2>1. CASE FetchBoard(selected) /\ UNCHANGED <<listStatus, games, selected>>
    BY <1>3, <1>6, <2>1 DEF Retry, Ownership, TypeOK
  <2>2. CASE Load(call, Exposed)
    BY <1>2, <1>6, <2>2 DEF Retry, sessionVars, Ownership, TypeOK
  <2> QED BY <1>6, <2>1, <2>2 DEF Retry
<1>7. CASE CloseGame
  <2>1. call' \in CallMaps /\ OwnCalls(call', Exposed)
    BY <1>1, <1>7, DeadOwn DEF CloseGame
  <2>2. Exposed' = Exposed
    BY <1>7 DEF CloseGame, Exposed, sessionVars
  <2>3. TypeOK'
    BY <1>7, <2>1, EmptyTypes DEF CloseGame, Closes, Ownership, TypeOK, Texts, sessionVars
  <2>4. ShownIsOwn'
    BY <1>7, <2>2 DEF CloseGame, Ownership, ShownIsOwn, EmptyBoard
  <2> QED BY <1>7, <2>1, <2>2, <2>3, <2>4 DEF CloseGame, Ownership, OwnCalls
<1>8. CASE OpenScreen
  BY <1>2, <1>8 DEF OpenScreen
<1>9. CASE CloseScreen
  <2>1. Exposed' = Exposed
    BY <1>9 DEF CloseScreen, Exposed
  <2>2. TypeOK'
    BY <1>9 DEF CloseScreen, Ownership, TypeOK
  <2>3. ShownIsOwn'
    BY <1>9, <2>1 DEF CloseScreen, Ownership, ShownIsOwn
  <2> QED BY <1>1, <1>9, <2>1, <2>2, <2>3 DEF CloseScreen, Ownership, OwnCalls
<1> QED BY <1>4, <1>5, <1>6, <1>7, <1>8, <1>9

-----------------------------------------------------------------------------
(* Replies                                                                 *)

\* A slot becomes free, or holds a fetch of whoever is signed in.
LEMMA TokenStep ==
  ASSUME Ownership, NEW c \in Calls, TokenAnswered(c)
  PROVE  Ownership'
<1>1. call \in CallMaps /\ OwnCalls(call, Exposed) /\ call[c] \in Fetches
  BY DEF Ownership, TypeOK, CallMaps, TokenAnswered
<1>2. ASSUME call' \in CallMaps, OwnCalls(call', Exposed),
             UNCHANGED <<sessionVars, signedIn, games, selected, board, names>>,
             listStatus' \in {"idle", "loading", "loaded", "error"},
             boardStatus' \in {"idle", "loading", "loaded", "error"},
             catalogStatus' \in {"none", "loading", "loaded"},
             errorText' \in Texts
      PROVE  Ownership'
  <2>1. Exposed' = Exposed
    BY <1>2 DEF Exposed, sessionVars
  <2>2. TypeOK' /\ ShownIsOwn'
    BY <1>2, <2>1 DEF Ownership, TypeOK, ShownIsOwn, sessionVars
  <2> QED BY <1>2, <2>1, <2>2 DEF Ownership, OwnCalls
<1>3. /\ [call EXCEPT ![c] = Free] \in CallMaps
      /\ OwnCalls([call EXCEPT ![c] = Free], Exposed)
  BY <1>1, PutOwn, FreeOwn
<1>4. CASE Drop(c)
  BY <1>2, <1>3, <1>4 DEF Drop, Ownership, TypeOK
<1>5. CASE TokenRefused(c)
  BY <1>2, <1>3, <1>5 DEF TokenRefused, Fail, Ownership, TypeOK, Texts
<1>6. CASE TokenGiven(c)
  <2> DEFINE k == [call[c] EXCEPT !.stage = "reply"]
             d == [call[c] EXCEPT !.kind = "catalog", !.stage = "reply"]
  <2>1. call[c].live /\ call[c].same /\ call[c].of = Exposed /\ Exposed # NoAccount
    BY <1>1, <1>6 DEF TokenGiven, OwnCalls, OwnCall, TokenAnswered
  <2>2. call[c].of \in Accounts
    BY <1>1, <2>1, FetchFields DEF Whoever
  <2>3. k \in Fetches /\ k.of = Exposed
    BY <1>1, <2>1, <2>2 DEF Fetches
  <2>4. d \in Fetches /\ d.of = Exposed
    BY <1>1, <2>1, <2>2 DEF Fetches, Kinds
  <2>5. OwnCall(k, Exposed) /\ OwnCall(d, Exposed)
    BY <2>1, <2>3, <2>4 DEF OwnCall
  <2>6. /\ [call EXCEPT ![c] = k] \in CallMaps
        /\ OwnCalls([call EXCEPT ![c] = k], Exposed)
    BY <1>1, <2>3, <2>5, PutOwn
  <2>7. ASSUME NEW e \in Calls
        PROVE  /\ [call EXCEPT ![c] = k, ![e] = d] \in CallMaps
               /\ OwnCalls([call EXCEPT ![c] = k, ![e] = d], Exposed)
    <3>1. [call EXCEPT ![c] = k, ![e] = d] = [[call EXCEPT ![c] = k] EXCEPT ![e] = d]
      OBVIOUS
    <3>2. /\ [[call EXCEPT ![c] = k] EXCEPT ![e] = d] \in CallMaps
          /\ OwnCalls([[call EXCEPT ![c] = k] EXCEPT ![e] = d], Exposed)
      BY <2>4, <2>5, <2>6, PutOwn
    <3> QED BY <3>1, <3>2
  <2>8. CASE call[c].kind = "list" /\ catalogStatus = "none"
    <3>1. PICK e \in Calls : call' = [call EXCEPT ![c] = k, ![e] = d]
      BY <1>6, <2>8 DEF TokenGiven
    <3>2. call' \in CallMaps /\ OwnCalls(call', Exposed)
      BY <2>7, <3>1
    <3> QED BY <1>2, <1>6, <2>8, <3>2 DEF TokenGiven, Ownership, TypeOK
  <2>9. CASE ~(call[c].kind = "list" /\ catalogStatus = "none")
    <3>1. call' = [call EXCEPT ![c] = k]
      BY <1>6, <2>9 DEF TokenGiven
    <3>2. call' \in CallMaps /\ OwnCalls(call', Exposed)
      BY <2>6, <3>1
    <3> QED BY <1>2, <1>6, <2>9, <3>2 DEF TokenGiven, Ownership, TypeOK
  <2> QED BY <2>8, <2>9
<1> QED BY <1>4, <1>5, <1>6 DEF TokenAnswered

\* What a reply brings is its asker's, or is not taken.
LEMMA ReplyStep ==
  ASSUME Ownership, NEW c \in Calls, Replied(c)
  PROVE  Ownership'
<1>1. call \in CallMaps /\ OwnCalls(call, Exposed) /\ call[c] \in Fetches
  BY DEF Ownership, TypeOK, CallMaps, Replied
<1>2. /\ [call EXCEPT ![c] = Free] \in CallMaps
      /\ OwnCalls([call EXCEPT ![c] = Free], Exposed)
  BY <1>1, PutOwn, FreeOwn
<1>3. /\ call' = [call EXCEPT ![c] = Free]
      /\ UNCHANGED <<sessionVars, signedIn, selected>>
  BY DEF Replied, Drop
<1>4. Exposed' = Exposed /\ call' \in CallMaps /\ OwnCalls(call', Exposed')
  BY <1>2, <1>3 DEF Exposed, sessionVars
<1>5. ASSUME listStatus' \in {"idle", "loading", "loaded", "error"},
             boardStatus' \in {"idle", "loading", "loaded", "error"},
             catalogStatus' \in {"none", "loading", "loaded"},
             errorText' \in Texts,
             games' \in GameLists,
             board' \in Boards,
             names' \in Whoever,
             \A a \in {games'.of, board'.of, names'} : a \in {NoAccount, Exposed}
      PROVE  Ownership'
  <2>1. TypeOK'
    BY <1>3, <1>4, <1>5 DEF Ownership, TypeOK, sessionVars
  <2>2. ShownIsOwn'
    BY <1>4, <1>5 DEF ShownIsOwn
  <2> QED BY <1>3, <1>4, <2>1, <2>2 DEF Ownership, OwnCalls
<1>6. CASE Drop(c)
  BY <1>5, <1>6 DEF Drop, Ownership, TypeOK, ShownIsOwn, Whoever
<1>7. CASE ~Drop(c)
  <2>1. call[c].live /\ call[c].stage = "reply"
    BY <1>7 DEF Replied
  <2>2. call[c].of = Exposed /\ call[c].of \in Accounts /\ call[c].game \in Games \cup {NoGame}
    BY <1>1, <2>1, FetchFields DEF OwnCalls, OwnCall, Replied
  <2>3. CASE ListArrives(c)
    <3>1. PICK G \in SUBSET Games : games' = [of |-> call[c].of, games |-> G]
      BY <2>3 DEF ListArrives
    <3> QED BY <1>5, <2>2, <2>3, <3>1 DEF ListArrives, GameLists, Ownership, TypeOK, ShownIsOwn, Whoever
  <2>4. CASE BoardArrives(c)
    BY <1>5, <2>2, <2>4 DEF BoardArrives, Boards, Ownership, TypeOK, ShownIsOwn, Whoever
  <2>5. CASE CatalogArrives(c)
    <3>1. board' = IF board.game = NoGame THEN board ELSE [board EXCEPT !.named = call[c].of]
      BY <2>5 DEF CatalogArrives, NameRows
    <3>2. /\ board' \in Boards
          /\ board'.of = board.of
      BY <2>2, <3>1 DEF Ownership, TypeOK, Boards, Whoever
    <3> QED BY <1>5, <2>2, <2>5, <3>2
          DEF CatalogArrives, Ownership, TypeOK, ShownIsOwn, Whoever
  <2>6. CASE ReplyFails(c)
    BY <1>5, <2>6 DEF ReplyFails, Fail, Ownership, TypeOK, ShownIsOwn, Texts
  <2> QED BY <1>7, <2>3, <2>4, <2>5, <2>6 DEF Replied
<1> QED BY <1>6, <1>7

-----------------------------------------------------------------------------
(* The theorems                                                            *)

\* The screen starts empty, and nobody is signed in.
LEMMA InitOwn == Init => Ownership
<1> SUFFICES ASSUME Init PROVE Ownership
  OBVIOUS
<1>1. Exposed = NoAccount
  BY DEF Init, Exposed
<1>2. TypeOK
  BY EmptyTypes DEF Init, TypeOK, Texts, Whoever, CallMaps
<1>3. ShownIsOwn
  BY DEF Init, ShownIsOwn, NoGames, EmptyBoard
<1>4. OwnCalls(call, Exposed)
  BY DEF Init, OwnCalls, OwnCall
<1> QED BY <1>1, <1>2, <1>3, <1>4 DEF Init, Ownership

\* Nothing that happens elsewhere matters.
LEMMA StutterOwn == Ownership /\ UNCHANGED vars => Ownership'
<1> SUFFICES ASSUME Ownership, UNCHANGED vars PROVE Ownership'
  OBVIOUS
<1>1. Exposed' = Exposed
  BY DEF vars, sessionVars, Exposed
<1>2. TypeOK'
  BY DEF vars, sessionVars, Ownership, TypeOK
<1>3. ShownIsOwn'
  BY <1>1 DEF vars, Ownership, ShownIsOwn
<1> QED BY <1>1, <1>2, <1>3 DEF vars, Ownership, OwnCalls

\* The inductive invariant: every fetch that is still wanted, and has or may
\* get a token, belongs to the account that the session shows.
THEOREM OwnershipInvariant == Spec => []Ownership
<1>1. Ownership /\ [Next]_vars => Ownership'
  <2> SUFFICES ASSUME Ownership, [Next]_vars PROVE Ownership'
    OBVIOUS
  <2>1. CASE Input
    BY <2>1, ScreenStep, SessionStep DEF Input
  <2>2. ASSUME NEW c \in Calls, TokenAnswered(c) \/ Replied(c) PROVE Ownership'
    BY <2>2, TokenStep, ReplyStep
  <2>3. CASE UNCHANGED vars
    BY <2>3, StutterOwn
  <2> QED BY <2>1, <2>2, <2>3 DEF Next
<1> QED BY InitOwn, <1>1, PTL DEF Spec

\* What is shown belongs to whoever is signed in, through every sign-out,
\* switch and masking, however late a list, a board or a catalog is.
THEOREM NothingOfOthers == Spec => []ShownIsOwn
<1>1. Ownership => ShownIsOwn
  BY DEF Ownership
<1> QED BY OwnershipInvariant, <1>1, PTL

-----------------------------------------------------------------------------
(* Which fetches are wanted                                                *)

\* The names need no token of their own, in any calls.
CatalogsWait(calls) ==
  \A c \in Calls : calls[c] # Free /\ calls[c].kind = "catalog" => calls[c].stage = "reply"

\* Making fetches unwanted leaves the others.
LEMMA DeadLive ==
  ASSUME NEW calls \in CallMaps, NEW kinds \in SUBSET Kinds
  PROVE  /\ \A kind \in Kinds :
              LiveIn(Dead(kinds, calls), kind) = IF kind \in kinds THEN {} ELSE LiveIn(calls, kind)
         /\ \A c \in Calls : /\ calls[c] = Free <=> Dead(kinds, calls)[c] = Free
                             /\ Dead(kinds, calls)[c].game = calls[c].game
         /\ CatalogsWait(calls) => CatalogsWait(Dead(kinds, calls))
<1> DEFINE D == Dead(kinds, calls)
<1>1. ASSUME NEW c \in Calls, calls[c] = Free
      PROVE  D[c] = Free
  BY <1>1 DEF Dead, Free, Kinds
<1>2. ASSUME NEW c \in Calls, calls[c] # Free
      PROVE  /\ D[c] # Free /\ D[c].kind = calls[c].kind /\ D[c].stage = calls[c].stage
             /\ D[c].game = calls[c].game
             /\ D[c].live <=> calls[c].live /\ calls[c].kind \notin kinds
  <2>1. calls[c] \in Fetches
    BY <1>2 DEF CallMaps
  <2>2. CASE calls[c].kind \notin kinds
    BY <1>2, <2>2 DEF Dead
  <2>3. CASE calls[c].kind \in kinds
    <3>1. D[c] = [calls[c] EXCEPT !.live = FALSE]
      BY <2>3 DEF Dead
    <3>2. D[c] # Free
      BY <2>1, <3>1, FetchUpdates, FetchFields
    <3>3. /\ D[c].kind = calls[c].kind /\ D[c].stage = calls[c].stage
          /\ D[c].game = calls[c].game /\ D[c].live = FALSE
      BY <2>1, <3>1 DEF Fetches
    <3> QED BY <2>3, <3>2, <3>3
  <2> QED BY <2>2, <2>3
<1> HIDE DEF D
<1>3. \A kind \in Kinds :
        LiveIn(D, kind) = IF kind \in kinds THEN {} ELSE LiveIn(calls, kind)
  BY <1>1, <1>2 DEF LiveIn
<1>4. \A c \in Calls : (calls[c] = Free <=> D[c] = Free) /\ D[c].game = calls[c].game
  BY <1>1, <1>2
<1>5. CatalogsWait(calls) => CatalogsWait(D)
  BY <1>1, <1>2 DEF CatalogsWait
<1> QED BY <1>3, <1>4, <1>5 DEF D

\* Fetches that are overtaken are still fetches.
LEMMA DeadMaps ==
  ASSUME NEW calls \in CallMaps, NEW kinds
  PROVE  Dead(kinds, calls) \in CallMaps
<1>1. ASSUME NEW c \in Calls PROVE Dead(kinds, calls)[c] \in Fetches \cup {Free}
  <2>1. CASE calls[c] = Free
    BY <2>1 DEF Dead, Free
  <2>2. CASE calls[c] \in Fetches
    BY <2>2, FetchUpdates DEF Dead
  <2> QED BY <2>1, <2>2 DEF CallMaps
<1>2. Dead(kinds, calls) = [c \in Calls |-> Dead(kinds, calls)[c]]
  BY DEF Dead
<1> QED BY <1>1, <1>2 DEF CallMaps

\* A new wanted fetch in a free slot.
LEMMA PutLive ==
  ASSUME NEW calls \in CallMaps, NEW c \in Calls, calls[c] = Free,
         NEW k \in Fetches, k.live
  PROVE  \A kind \in Kinds :
           LiveIn([calls EXCEPT ![c] = k], kind) =
             IF kind = k.kind THEN LiveIn(calls, kind) \cup {c} ELSE LiveIn(calls, kind)
<1>1. k # Free
  BY FetchFields
<1>2. /\ [calls EXCEPT ![c] = k][c] = k
      /\ \A d \in Calls : d # c => [calls EXCEPT ![c] = k][d] = calls[d]
  BY DEF CallMaps
<1> QED BY <1>1, <1>2 DEF LiveIn

\* A slot that becomes free.
LEMMA FreeLive ==
  ASSUME NEW calls \in CallMaps, NEW c \in Calls
  PROVE  \A kind \in Kinds : LiveIn([calls EXCEPT ![c] = Free], kind) = LiveIn(calls, kind) \ {c}
<1>1. /\ [calls EXCEPT ![c] = Free][c] = Free
      /\ \A d \in Calls : d # c => [calls EXCEPT ![c] = Free][d] = calls[d]
  BY DEF CallMaps
<1> QED BY <1>1 DEF LiveIn

\* A new fetch is wanted, and is no catalog's.
LEMMA AskingLive ==
  ASSUME NEW kind \in {"list", "board"}, NEW g \in Games \cup {NoGame}, NEW who \in Whoever
  PROVE  LET k == Asking(kind, g, who)
         IN  /\ k \in Fetches /\ k # Free /\ k.live /\ k.kind = kind /\ k.game = g
             /\ k.kind # "catalog"
<1>1. Asking(kind, g, who) \in Fetches
  BY AskingOwn DEF Kinds
<1> QED BY <1>1, FetchFields DEF Asking

-----------------------------------------------------------------------------
(* The operations that start fetches                                       *)

\* loadGames(): the list alone is loading, besides the catalog.
LEMMA LoadSelects ==
  ASSUME NEW calls \in CallMaps, NEW who \in Whoever, CatalogsWait(calls),
         Load(calls, who)
  PROVE  /\ \E c \in Calls : LiveIn(call', "list") = {c}
         /\ LiveIn(call', "board") = {}
         /\ LiveIn(call', "catalog") = LiveIn(calls, "catalog")
         /\ CatalogsWait(call')
<1> DEFINE D == Dead({"list", "board"}, calls)
           k == Asking("list", NoGame, who)
<1>1. PICK c \in Calls : calls[c] = Free /\ call' = [D EXCEPT ![c] = k]
  BY DEF Load
<1>2. /\ {"list", "board"} \in SUBSET Kinds /\ {"list", "board", "catalog"} = Kinds
      /\ D \in CallMaps
  BY DeadMaps DEF Kinds
<1>3. k \in Fetches /\ k # Free /\ k.live /\ k.kind = "list" /\ k.kind # "catalog"
  BY AskingLive
<1>4. /\ LiveIn(D, "list") = {} /\ LiveIn(D, "board") = {}
      /\ LiveIn(D, "catalog") = LiveIn(calls, "catalog")
      /\ D[c] = Free /\ CatalogsWait(D)
  BY <1>1, <1>2, DeadLive
<1> HIDE DEF D, k
<1>5. \A kind \in Kinds : LiveIn(call', kind) =
        IF kind = "list" THEN LiveIn(D, kind) \cup {c} ELSE LiveIn(D, kind)
  <2>1. \A kind \in Kinds : LiveIn([D EXCEPT ![c] = k], kind) =
          IF kind = k.kind THEN LiveIn(D, kind) \cup {c} ELSE LiveIn(D, kind)
    BY <1>2, <1>3, <1>4, PutLive
  <2> QED BY <1>1, <1>3, <2>1
<1>6. CatalogsWait(call')
  BY <1>1, <1>2, <1>3, <1>4 DEF CatalogsWait, CallMaps
<1> QED BY <1>2, <1>4, <1>5, <1>6

\* fetchBoard(): that board alone is loading.
LEMMA FetchBoardSelects ==
  ASSUME call \in CallMaps, Exposed \in Whoever, CatalogsWait(call),
         NEW g \in Games \cup {NoGame}, FetchBoard(g)
  PROVE  /\ \E c \in Calls : LiveIn(call', "board") = {c} /\ call'[c].game = g
         /\ LiveIn(call', "list") = LiveIn(call, "list")
         /\ LiveIn(call', "catalog") = LiveIn(call, "catalog")
         /\ CatalogsWait(call')
<1> DEFINE D == Dead({"board"}, call)
           k == Asking("board", g, Exposed)
<1>1. PICK c \in Calls : call[c] = Free /\ call' = [D EXCEPT ![c] = k]
  BY DEF FetchBoard
<1>2. /\ {"board"} \in SUBSET Kinds /\ {"list", "board", "catalog"} = Kinds
      /\ D \in CallMaps
  BY DeadMaps DEF Kinds
<1>3. k \in Fetches /\ k # Free /\ k.live /\ k.kind = "board" /\ k.game = g /\ k.kind # "catalog"
  BY AskingLive
<1>4. /\ LiveIn(D, "board") = {} /\ LiveIn(D, "list") = LiveIn(call, "list")
      /\ LiveIn(D, "catalog") = LiveIn(call, "catalog")
      /\ D[c] = Free /\ CatalogsWait(D)
  BY <1>1, <1>2, DeadLive
<1> HIDE DEF D, k
<1>5. \A kind \in Kinds : LiveIn(call', kind) =
        IF kind = "board" THEN LiveIn(D, kind) \cup {c} ELSE LiveIn(D, kind)
  <2>1. \A kind \in Kinds : LiveIn([D EXCEPT ![c] = k], kind) =
          IF kind = k.kind THEN LiveIn(D, kind) \cup {c} ELSE LiveIn(D, kind)
    BY <1>2, <1>3, <1>4, PutLive
  <2> QED BY <1>1, <1>3, <2>1
<1>6. CatalogsWait(call') /\ call'[c].game = g
  BY <1>1, <1>2, <1>3, <1>4 DEF CatalogsWait, CallMaps
<1> QED BY <1>2, <1>4, <1>5, <1>6

-----------------------------------------------------------------------------
(* The steps                                                               *)

\* What the steps below need of the invariants.
LEMMA SelectionFacts ==
  ASSUME Ownership, Selection
  PROVE  /\ call \in CallMaps /\ Exposed \in Whoever /\ selected \in Games \cup {NoGame}
         /\ CatalogsWait(call)
         /\ \A kind : Live(kind) = LiveIn(call, kind)
BY ExposedType DEF Ownership, Selection, TypeOK, CatalogsWait, Live

\* An empty screen of which at most the list is loading.
LEMMA EmptyScreenSelects ==
  ASSUME board' = EmptyBoard, boardStatus' = "idle", LiveIn(call', "board") = {},
         listStatus' = "loading" <=> LiveIn(call', "list") # {},
         catalogStatus' = "loading" <=> LiveIn(call', "catalog") # {},
         \A kind \in Kinds : \A c, d \in LiveIn(call', kind) : c = d,
         CatalogsWait(call')
  PROVE  Selection'
<1>1. BoardIsSelected'
  BY DEF BoardIsSelected, Live, EmptyBoard
<1>2. LoadingHasItsFetch'
  BY DEF LoadingHasItsFetch, Live
<1> QED BY <1>1, <1>2 DEF Selection, CatalogsWait

\* loadGames(), which leaves the catalog alone.
LEMMA LoadKeepsSelection ==
  ASSUME Ownership, Selection, NEW who \in Whoever, NEW calls \in CallMaps,
         CatalogsWait(calls), LiveIn(calls, "catalog") = Live("catalog"),
         Load(calls, who), UNCHANGED catalogStatus
  PROVE  Selection'
<1>1. /\ \E c \in Calls : LiveIn(call', "list") = {c}
      /\ LiveIn(call', "board") = {}
      /\ LiveIn(call', "catalog") = Live("catalog")
      /\ CatalogsWait(call')
  BY LoadSelects
<1>2. board' = EmptyBoard /\ boardStatus' = "idle" /\ listStatus' = "loading"
  BY DEF Load
<1>3. catalogStatus' = "loading" <=> LiveIn(call', "catalog") # {}
  BY <1>1 DEF Selection, LoadingHasItsFetch
<1>4. \A kind \in Kinds : \A c, d \in LiveIn(call', kind) : c = d
  BY <1>1 DEF Selection, LoadingHasItsFetch, Kinds
<1> QED BY <1>1, <1>2, <1>3, <1>4, EmptyScreenSelects

\* The session changes: the screen is emptied, loaded, or left as it is.
LEMMA SyncSelects ==
  ASSUME Ownership, Selection, Exposed' \in Whoever, NEW calls \in CallMaps,
         CatalogsWait(calls), \A kind \in Kinds : LiveIn(calls, kind) = Live(kind),
         \A c \in Live("board") : calls[c].game = call[c].game,
         Sync(calls)
  PROVE  Selection'
<1>1. CASE Exposed' = NoAccount
  <2>1. Reset(calls)
    BY <1>1 DEF Sync
  <2>2. /\ \A kind \in Kinds : LiveIn(call', kind) = {}
        /\ CatalogsWait(call')
    BY <2>1, DeadLive DEF Reset
  <2>3. /\ board' = EmptyBoard /\ boardStatus' = "idle" /\ listStatus' = "idle"
        /\ catalogStatus' = "none"
    BY <2>1 DEF Reset
  <2> QED BY <2>2, <2>3, EmptyScreenSelects DEF Kinds
<1>2. CASE Exposed' # NoAccount
  <2>1. CASE Load(calls, Exposed') /\ UNCHANGED <<catalogStatus, names>>
    BY <2>1, LoadKeepsSelection DEF Kinds
  <2>2. CASE /\ call' = calls
             /\ UNCHANGED <<listStatus, boardStatus, catalogStatus, errorText,
                            games, selected, board, names>>
    <3>1. \A kind \in Kinds : Live(kind)' = Live(kind)
      BY <2>2 DEF Live
    <3>2. BoardIsSelected' /\ LoadingHasItsFetch'
      BY <2>2, <3>1 DEF Selection, BoardIsSelected, LoadingHasItsFetch, Kinds
    <3> QED BY <2>2, <3>2 DEF Selection, CatalogsWait
  <2> QED BY <1>2, <2>1, <2>2 DEF Sync
<1> QED BY <1>1, <1>2

\* What the session tells keeps selection, board and fetches together.
LEMMA SessionSelects ==
  ASSUME Ownership, Ownership', Selection,
         SignIn \/ EndSession \/ MaskChanges \/ StateChanges
  PROVE  Selection'
<1>1. call \in CallMaps /\ CatalogsWait(call) /\ \A kind : Live(kind) = LiveIn(call, kind)
  BY SelectionFacts
<1>2. Exposed' \in Whoever
  BY ExposedTypeNext DEF Ownership, TypeOK
<1>3. CASE Sync(call)
  BY <1>1, <1>2, <1>3, SyncSelects
<1>4. CASE EndSession
  <2> DEFINE E == [c \in Calls |-> IF call[c] = Free THEN Free
                                   ELSE [call[c] EXCEPT !.same = FALSE]]
  <2>1. ASSUME NEW c \in Calls, call[c] # Free
        PROVE  /\ E[c] \in Fetches /\ E[c] # Free /\ E[c].kind = call[c].kind
               /\ E[c].live = call[c].live /\ E[c].stage = call[c].stage
               /\ E[c].game = call[c].game
    <3>1. call[c] \in Fetches /\ E[c] = [call[c] EXCEPT !.same = FALSE]
      BY <1>1, <2>1 DEF CallMaps
    <3>2. E[c] \in Fetches /\ E[c] # Free
      BY <3>1, FetchUpdates, FetchFields
    <3> QED BY <3>1, <3>2 DEF Fetches
  <2>2. \A c \in Calls : call[c] = Free => E[c] = Free
    OBVIOUS
  <2>3. E \in [Calls -> Fetches \cup {Free}]
    BY <2>1, <2>2
  <2>4. Sync(E)
    BY <1>4 DEF EndSession
  <2> HIDE DEF E
  <2>5. \A kind \in Kinds : LiveIn(E, kind) = Live(kind)
    BY <1>1, <2>1, <2>2 DEF LiveIn
  <2>6. CatalogsWait(E)
    BY <1>1, <2>1, <2>2 DEF CatalogsWait
  <2>7. \A c \in Live("board") : E[c].game = call[c].game
    BY <1>1, <2>1 DEF LiveIn
  <2> QED BY <1>2, <2>3, <2>4, <2>5, <2>6, <2>7, SyncSelects DEF CallMaps
<1> QED BY <1>3, <1>4 DEF SignIn, MaskChanges, StateChanges

\* So does what the screen asks for.
LEMMA ScreenSelects ==
  ASSUME Ownership, Selection,
         LoadGames \/ (\E g \in Games : OpenGame(g)) \/ Retry \/ CloseGame
           \/ OpenScreen \/ CloseScreen
  PROVE  Selection'
<1>1. /\ call \in CallMaps /\ Exposed \in Whoever /\ CatalogsWait(call)
      /\ \A kind : Live(kind) = LiveIn(call, kind)
      /\ selected \in Games \cup {NoGame}
  BY SelectionFacts
<1>2. ASSUME Load(call, Exposed), UNCHANGED catalogStatus PROVE Selection'
  BY <1>1, <1>2, LoadKeepsSelection
<1>3. ASSUME NEW g \in Games \cup {NoGame}, FetchBoard(g), selected' = g,
             UNCHANGED <<listStatus, catalogStatus>>
      PROVE  Selection'
  <2>1. /\ \E c \in Calls : LiveIn(call', "board") = {c} /\ call'[c].game = g
        /\ LiveIn(call', "list") = Live("list")
        /\ LiveIn(call', "catalog") = Live("catalog")
        /\ CatalogsWait(call')
    BY <1>1, <1>3, FetchBoardSelects
  <2>2. board' = EmptyBoard /\ boardStatus' = "loading"
    BY <1>3 DEF FetchBoard
  <2>3. BoardIsSelected'
    BY <1>3, <2>1, <2>2 DEF BoardIsSelected, EmptyBoard, Live
  <2>4. LoadingHasItsFetch'
    BY <1>3, <2>1, <2>2 DEF Selection, LoadingHasItsFetch, Live, Kinds
  <2> QED BY <2>1, <2>3, <2>4 DEF Selection, CatalogsWait
<1>4. CASE LoadGames
  BY <1>2, <1>4 DEF LoadGames
<1>5. ASSUME NEW g \in Games, OpenGame(g) PROVE Selection'
  BY <1>3, <1>5 DEF OpenGame
<1>6. CASE Retry
  <2>1. CASE FetchBoard(selected) /\ UNCHANGED <<listStatus, games, selected>>
    BY <1>1, <1>3, <1>6, <2>1 DEF Retry
  <2>2. CASE Load(call, Exposed)
    BY <1>2, <1>6, <2>2 DEF Retry
  <2> QED BY <1>6, <2>1, <2>2 DEF Retry
<1>7. CASE CloseGame
  <2>1. {"board"} \in SUBSET Kinds /\ Kinds = {"list", "board", "catalog"}
    BY DEF Kinds
  <2>2. /\ LiveIn(call', "board") = {} /\ LiveIn(call', "list") = Live("list")
        /\ LiveIn(call', "catalog") = Live("catalog")
        /\ CatalogsWait(call')
    BY <1>1, <1>7, <2>1, DeadLive DEF CloseGame
  <2>3. /\ board' = EmptyBoard /\ boardStatus' = "idle"
        /\ UNCHANGED <<listStatus, catalogStatus>>
    BY <1>7 DEF CloseGame
  <2> QED BY <2>1, <2>2, <2>3, EmptyScreenSelects DEF Selection, LoadingHasItsFetch
<1>8. CASE OpenScreen
  BY <1>2, <1>8 DEF OpenScreen
<1>9. CASE CloseScreen
  BY <1>9 DEF CloseScreen, Selection, BoardIsSelected, LoadingHasItsFetch, Live, LiveIn
<1> QED BY <1>4, <1>5, <1>6, <1>7, <1>8, <1>9

\* A reply that nobody waits for frees its slot.
LEMMA DropSelects ==
  ASSUME Ownership, Selection, NEW c \in Calls, Drop(c)
  PROVE  Selection'
<1>1. call \in CallMaps /\ CatalogsWait(call) /\ \A kind : Live(kind) = LiveIn(call, kind)
  BY SelectionFacts
<1>2. call' = [call EXCEPT ![c] = Free] /\ ~call[c].live
  BY DEF Drop
<1>3. \A kind \in Kinds : Live(kind)' = Live(kind)
  <2>1. \A kind \in Kinds : LiveIn(call', kind) = Live(kind) \ {c}
    BY <1>1, <1>2, FreeLive
  <2>2. \A kind : c \notin Live(kind)
    BY <1>2 DEF Live, LiveIn
  <2> QED BY <2>1, <2>2 DEF Live
<1>4. \A d \in Live("board") : call'[d] = call[d]
  BY <1>1, <1>2 DEF Live, LiveIn, CallMaps
<1>5. BoardIsSelected' /\ LoadingHasItsFetch'
  BY <1>3, <1>4 DEF Drop, Selection, BoardIsSelected, LoadingHasItsFetch, Kinds
<1>6. CatalogsWait(call')
  BY <1>1, <1>2 DEF CatalogsWait, CallMaps
<1> QED BY <1>5, <1>6 DEF Selection, CatalogsWait

\* The slot of a wanted fetch becomes free: nothing of its kind is wanted now.
LEMMA EndedFetch ==
  ASSUME Ownership, Selection, NEW c \in Calls, call[c] # Free, call[c].live,
         call' = [call EXCEPT ![c] = Free]
  PROVE  /\ call[c].kind \in Kinds /\ c \in Live(call[c].kind)
         /\ \A kind \in Kinds : Live(kind)' = IF kind = call[c].kind THEN {} ELSE Live(kind)
         /\ \A d \in Live("board") : d # c => call'[d] = call[d]
         /\ CatalogsWait(call')
         /\ call[c].kind = "board" => board.game = NoGame /\ call[c].game = selected
<1>1. call \in CallMaps /\ CatalogsWait(call) /\ \A kind : Live(kind) = LiveIn(call, kind)
  BY SelectionFacts
<1>2. call[c].kind \in Kinds /\ c \in Live(call[c].kind)
  BY <1>1, FetchFields DEF CallMaps, LiveIn
<1>3. \A kind \in Kinds : LiveIn(call', kind) = Live(kind) \ {c}
  BY <1>1, FreeLive
<1>4. \A kind \in Kinds : Live(kind)' = IF kind = call[c].kind THEN {} ELSE Live(kind)
  <2>1. ASSUME NEW kind \in Kinds, kind # call[c].kind PROVE c \notin Live(kind)
    BY <1>1, <2>1 DEF LiveIn
  <2>2. \A kind \in Kinds : \A d, e \in Live(kind) : d = e
    BY DEF Selection, LoadingHasItsFetch
  <2>3. \A kind \in Kinds : Live(kind) \ {c} = IF kind = call[c].kind THEN {} ELSE Live(kind)
    BY <1>2, <2>1, <2>2
  <2>4. \A kind \in Kinds : Live(kind)' = LiveIn(call', kind)
    BY DEF Live
  <2> QED BY <1>3, <2>3, <2>4
<1>5. CatalogsWait(call')
  BY <1>1 DEF CatalogsWait, CallMaps
<1>6. call[c].kind = "board" => board.game = NoGame /\ call[c].game = selected
  BY <1>2 DEF Selection, BoardIsSelected, LoadingHasItsFetch
<1>7. \A d \in Live("board") : d # c => call'[d] = call[d]
  BY <1>1 DEF LiveIn, CallMaps
<1> QED BY <1>2, <1>4, <1>5, <1>6, <1>7

\* requestAccessToken() answers.
LEMMA TokenSelects ==
  ASSUME Ownership, Selection, NEW c \in Calls, TokenAnswered(c)
  PROVE  Selection'
<1>1. call \in CallMaps /\ CatalogsWait(call) /\ \A kind : Live(kind) = LiveIn(call, kind)
  BY SelectionFacts
<1>2. call[c] \in Fetches /\ call[c] # Free /\ call[c].kind \in {"list", "board"}
  <2>1. call[c] # Free /\ call[c].stage = "token" /\ call[c] \in Fetches
    BY <1>1 DEF TokenAnswered, CallMaps
  <2> QED BY <1>1, <2>1, FetchFields DEF CatalogsWait, Kinds
<1>3. CASE Drop(c)
  BY <1>3, DropSelects
<1>4. CASE TokenRefused(c)
  <2>1. /\ \A kind \in Kinds : Live(kind)' = IF kind = call[c].kind THEN {} ELSE Live(kind)
        /\ \A d \in Live("board") : d # c => call'[d] = call[d]
        /\ CatalogsWait(call') /\ c \in Live(call[c].kind)
        /\ call[c].kind = "board" => board.game = NoGame
    BY <1>2, <1>4, EndedFetch DEF TokenRefused
  <2>2. /\ UNCHANGED <<selected, board, names, catalogStatus>>
        /\ call[c].kind = "list" => listStatus' = "error" /\ UNCHANGED boardStatus
        /\ call[c].kind = "board" => boardStatus' = "error" /\ UNCHANGED listStatus
    BY <1>4 DEF TokenRefused, Fail
  <2>3. BoardIsSelected'
    <3>1. \A d \in Live("board")' : d \in Live("board") /\ call'[d] = call[d]
      BY <1>1, <2>1 DEF Kinds, LiveIn
    <3> QED BY <1>2, <2>1, <2>2, <3>1 DEF Selection, BoardIsSelected
  <2>4. LoadingHasItsFetch'
    BY <1>2, <2>1, <2>2 DEF Selection, LoadingHasItsFetch, Kinds
  <2> QED BY <2>1, <2>3, <2>4 DEF Selection, CatalogsWait
<1>5. CASE TokenGiven(c)
  <2> DEFINE k == [call[c] EXCEPT !.stage = "reply"]
             n == [call[c] EXCEPT !.kind = "catalog", !.stage = "reply"]
             M == [call EXCEPT ![c] = k]
  <2>1. call[c].of \in Accounts
    BY <1>1, <1>2, <1>5, FetchFields
       DEF TokenGiven, Ownership, OwnCalls, OwnCall, Whoever
  <2>2. /\ k \in Fetches /\ k # Free /\ k.kind = call[c].kind /\ k.live = call[c].live
        /\ k.game = call[c].game /\ k.stage = "reply"
    <3>1. k \in Fetches
      BY <1>2, <2>1, FetchUpdates
    <3> QED BY <1>2, <3>1, FetchFields DEF Fetches
  <2>3. n \in Fetches /\ n.kind = "catalog" /\ n.stage = "reply" /\ n.live
    BY <1>2, <1>5, <2>1 DEF Fetches, Kinds, TokenGiven
  <2>4. M[c] = k /\ \A d \in Calls : d # c => M[d] = call[d]
    BY <1>1 DEF CallMaps
  <2>5. M \in CallMaps
    BY <1>1, <2>2 DEF CallMaps
  <2> HIDE DEF M, k, n
  <2>6. /\ \A kind \in Kinds : LiveIn(M, kind) = Live(kind)
        /\ CatalogsWait(M)
        /\ \A d \in Calls : M[d].game = call[d].game
    BY <1>1, <1>2, <2>2, <2>4 DEF LiveIn, CatalogsWait
  <2>7. UNCHANGED <<listStatus, boardStatus, selected, board, names>>
    BY <1>5 DEF TokenGiven
  <2>8. CASE call[c].kind = "list" /\ catalogStatus = "none"
    <3>1. PICK d \in Calls : call[d] = Free /\ call' = [call EXCEPT ![c] = k, ![d] = n]
      BY <1>5, <2>8 DEF TokenGiven, k, n
    <3>2. d # c /\ M[d] = Free /\ call' = [M EXCEPT ![d] = n]
      BY <1>2, <2>4, <3>1 DEF M
    <3>3. \A kind \in Kinds : LiveIn([M EXCEPT ![d] = n], kind) =
            IF kind = n.kind THEN LiveIn(M, kind) \cup {d} ELSE LiveIn(M, kind)
      BY <2>3, <2>5, <3>2, PutLive
    <3>4. Live("catalog") = {}
      BY <2>8 DEF Selection, LoadingHasItsFetch
    <3>5. \A kind \in Kinds : Live(kind)' = IF kind = "catalog" THEN {d} ELSE Live(kind)
      BY <2>3, <2>6, <3>2, <3>3, <3>4 DEF Live
    <3>6. \A e \in Live("board") : call'[e].game = call[e].game
      BY <1>1, <2>5, <2>6, <3>1, <3>2 DEF CallMaps, LiveIn
    <3>7. catalogStatus' = "loading"
      BY <1>5, <2>8 DEF TokenGiven
    <3>8. BoardIsSelected' /\ LoadingHasItsFetch'
      BY <2>7, <3>5, <3>6, <3>7 DEF Selection, BoardIsSelected, LoadingHasItsFetch, Kinds
    <3>9. CatalogsWait(call')
      BY <2>3, <2>5, <2>6, <3>2 DEF CatalogsWait, CallMaps
    <3> QED BY <3>8, <3>9 DEF Selection, CatalogsWait
  <2>9. CASE ~(call[c].kind = "list" /\ catalogStatus = "none")
    <3>1. call' = M /\ UNCHANGED catalogStatus
      BY <1>5, <2>9 DEF TokenGiven, M, k
    <3>2. \A kind \in Kinds : Live(kind)' = Live(kind)
      BY <2>6, <3>1 DEF Live
    <3>3. BoardIsSelected' /\ LoadingHasItsFetch'
      BY <1>1, <2>6, <2>7, <3>1, <3>2
         DEF Selection, BoardIsSelected, LoadingHasItsFetch, Kinds, LiveIn
    <3> QED BY <2>6, <3>1, <3>3 DEF Selection, CatalogsWait
  <2> QED BY <2>8, <2>9
<1> QED BY <1>3, <1>4, <1>5 DEF TokenAnswered

\* The game client answers.
LEMMA ReplySelects ==
  ASSUME Ownership, Selection, NEW c \in Calls, Replied(c)
  PROVE  Selection'
<1>1. CASE Drop(c)
  BY <1>1, DropSelects
<1>2. CASE ~Drop(c)
  <2>1. /\ call[c] # Free /\ call[c].live /\ call' = [call EXCEPT ![c] = Free]
        /\ UNCHANGED selected
    BY <1>2 DEF Replied
  <2>2. /\ call[c].kind \in Kinds /\ c \in Live(call[c].kind)
        /\ \A kind \in Kinds : Live(kind)' = IF kind = call[c].kind THEN {} ELSE Live(kind)
        /\ \A d \in Live("board") : d # c => call'[d] = call[d]
        /\ CatalogsWait(call')
        /\ call[c].kind = "board" => board.game = NoGame /\ call[c].game = selected
    BY <2>1, EndedFetch
  <2>3. \A d \in Live("board")' : d \in Live("board") /\ call'[d].game = selected
    <3>1. \A d \in Live("board")' : d \in Live("board") /\ d # c
      BY <2>1, <2>2 DEF Kinds, Live, LiveIn
    <3> QED BY <2>2, <3>1 DEF Selection, BoardIsSelected
  <2>4. CASE ListArrives(c)
    BY <2>1, <2>2, <2>3, <2>4 DEF ListArrives, Selection, BoardIsSelected,
       LoadingHasItsFetch, Kinds, CatalogsWait
  <2>5. CASE BoardArrives(c)
    BY <2>1, <2>2, <2>3, <2>5 DEF BoardArrives, Selection, BoardIsSelected,
       LoadingHasItsFetch, Kinds, CatalogsWait
  <2>6. CASE CatalogArrives(c)
    <3>1. /\ names' = call[c].of /\ catalogStatus' = "loaded" /\ call[c].kind = "catalog"
          /\ board' = IF board.game = NoGame THEN board ELSE [board EXCEPT !.named = call[c].of]
          /\ UNCHANGED <<listStatus, boardStatus>>
      BY <2>6 DEF CatalogArrives, NameRows
    <3>2. board'.game = board.game /\ (board'.game # NoGame => board'.named = names')
      BY <3>1 DEF Ownership, TypeOK, Boards
    <3> QED BY <2>1, <2>2, <2>3, <3>1, <3>2 DEF Selection, BoardIsSelected,
       LoadingHasItsFetch, Kinds, CatalogsWait
  <2>7. CASE ReplyFails(c)
    BY <2>1, <2>2, <2>3, <2>7 DEF ReplyFails, Fail, Selection, BoardIsSelected,
       LoadingHasItsFetch, Kinds, CatalogsWait
  <2> QED BY <1>2, <2>4, <2>5, <2>6, <2>7 DEF Replied
<1> QED BY <1>1, <1>2

-----------------------------------------------------------------------------
(* The theorems                                                            *)

\* The inductive invariant: statuses, fetches, the board and its names agree.
THEOREM SelectionInvariant == Spec => []Selection
<1>1. Init => Selection
  BY DEF Init, Selection, BoardIsSelected, LoadingHasItsFetch, Live, LiveIn, EmptyBoard
<1>2. Selection /\ Ownership /\ Ownership' /\ [Next]_vars => Selection'
  <2> SUFFICES ASSUME Selection, Ownership, Ownership', [Next]_vars PROVE Selection'
    OBVIOUS
  <2>1. CASE Input
    BY <2>1, ScreenSelects, SessionSelects DEF Input
  <2>2. ASSUME NEW c \in Calls, TokenAnswered(c) \/ Replied(c) PROVE Selection'
    BY <2>2, TokenSelects, ReplySelects
  <2>3. CASE UNCHANGED vars
    BY <2>3 DEF vars, Selection, BoardIsSelected, LoadingHasItsFetch, Live, LiveIn
  <2> QED BY <2>1, <2>2, <2>3 DEF Next
<1> QED BY OwnershipInvariant, <1>1, <1>2, PTL DEF Spec

\* The board shown or on its way is the selected game's, and is named.
THEOREM ShownIsSelected == Spec => []BoardIsSelected
<1>1. Selection => BoardIsSelected
  BY DEF Selection
<1> QED BY SelectionInvariant, <1>1, PTL

\* What is said to be loading has one fetch that will end it.
THEOREM OneFetchEach == Spec => []LoadingHasItsFetch
<1>1. Selection => LoadingHasItsFetch
  BY DEF Selection
<1> QED BY SelectionInvariant, <1>1, PTL
=============================================================================
