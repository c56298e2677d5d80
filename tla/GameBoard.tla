----------------------------- MODULE GameBoard -----------------------------
(***************************************************************************)
(* GameBoardController with its BoardCardsModel and the screen that shows  *)
(* them: the signed-in user's games, one game's cards, and the catalog of  *)
(* card names.  Each fetch asks the session for a token and then the game  *)
(* client for the data; replies come in any order, and one from before the *)
(* session ended, the list was reloaded or another game was opened must    *)
(* not be shown.  The session appears as what the controller sees of it:   *)
(* whose it is, and whether a failed clean-up masks it (SessionCoordinator *)
(* models it); a generation number is whether a call still has the latest. *)
(***************************************************************************)
EXTENDS Naturals

CONSTANTS Accounts, Games, NoAccount, NoGame,
          Calls      \* slots for fetches in flight: bounds their number

ASSUME NoAccountAssumption == NoAccount \notin Accounts
ASSUME NoGameAssumption == NoGame \notin Games

VARIABLES session,        \* the account that is signed in, or NoAccount
          masked,         \* the coordinator shows another profile's problem
          open,           \* the board screen is open
          signedIn,       \* m_signedIn
          listStatus, boardStatus, catalogStatus,
          errorText,      \* m_errorText
          games,          \* m_games, and whose they are
          selected,       \* m_selected
          board,          \* the model's rows: whose, which game's, named by
          names,          \* the model's names: whose catalog
          call            \* the fetches in flight

sessionVars == <<session, masked, open>>
vars == <<sessionVars, signedIn, listStatus, boardStatus, catalogStatus, errorText,
          games, selected, board, names, call>>

Kinds == {"list", "board", "catalog"}
Whoever == Accounts \cup {NoAccount}
Free == [kind |-> "none"]
\* live: its generation is still the latest.  same: so is the session's, and
\* the session let it ask for a token.
Fetches ==
  [kind : Kinds, stage : {"token"}, live : BOOLEAN, same : BOOLEAN,
   of : Whoever, game : Games \cup {NoGame}]
  \cup [kind : Kinds, stage : {"reply"}, live : BOOLEAN, same : BOOLEAN,
        of : Accounts, game : Games \cup {NoGame}]
\* storeFailed and sessionEnded are both "Could not read your saved sign-in".
Texts == {"none", "signIn", "storeFailed", "sessionEnded", "request"}

NoGames == [of |-> NoAccount, games |-> {}]
EmptyBoard == [of |-> NoAccount, game |-> NoGame, named |-> NoAccount]
GameLists == [of : Whoever, games : SUBSET Games]
Boards == [of : Whoever, game : Games \cup {NoGame}, named : Whoever]
CallMaps == [Calls -> Fetches \cup {Free}]
\* Whom the session shows as signed in.
Exposed == IF masked THEN NoAccount ELSE session
Dead(kinds, calls) ==
  [c \in Calls |-> IF calls[c].kind \in kinds THEN [calls[c] EXCEPT !.live = FALSE]
                   ELSE calls[c]]

Init ==
  /\ session = NoAccount /\ masked = FALSE /\ open = FALSE /\ signedIn = FALSE
  /\ listStatus = "idle" /\ boardStatus = "idle" /\ catalogStatus = "none"
  /\ errorText = "none"
  /\ games = NoGames /\ selected = NoGame /\ board = EmptyBoard /\ names = NoAccount
  /\ call = [c \in Calls |-> Free]

-----------------------------------------------------------------------------
(* loadGames(), openGame(), fetchBoard(), retry(), closeGame()             *)

\* The token is asked for: refused later unless the session shows SignedIn.
Asking(kind, g, who) ==
  [kind |-> kind, stage |-> "token", live |-> TRUE, same |-> who # NoAccount,
   of |-> who, game |-> g]

\* Mutant: boards in flight stay wanted.
LoadKeepingBoard(calls, who) ==
  \E c \in Calls :
    /\ calls[c] = Free
    /\ call' = [Dead({"list"}, calls) EXCEPT ![c] = Asking("list", NoGame, who)]
    /\ games' = NoGames /\ selected' = NoGame /\ board' = EmptyBoard
    /\ listStatus' = "loading" /\ boardStatus' = "idle" /\ errorText' = "none"

\* loadGames(), with |calls| in flight and |who| signed in.
Load(calls, who) ==
  \E c \in Calls :
    /\ calls[c] = Free
    /\ call' = [Dead({"list", "board"}, calls) EXCEPT ![c] = Asking("list", NoGame, who)]
    /\ games' = NoGames /\ selected' = NoGame /\ board' = EmptyBoard
    /\ listStatus' = "loading" /\ boardStatus' = "idle" /\ errorText' = "none"

LoadGames ==
  /\ open
  /\ Load(call, Exposed)
  /\ UNCHANGED <<sessionVars, signedIn, catalogStatus, names>>

\* Mutant: a board in flight for another game is not forgotten.
FetchAnotherBoard(g) ==
  \E c \in Calls :
    /\ call[c] = Free
    /\ call' = [call EXCEPT ![c] = Asking("board", g, Exposed)]
    /\ board' = EmptyBoard /\ boardStatus' = "loading" /\ errorText' = "none"

FetchBoard(g) ==
  \E c \in Calls :
    /\ call[c] = Free
    /\ call' = [Dead({"board"}, call) EXCEPT ![c] = Asking("board", g, Exposed)]
    /\ board' = EmptyBoard /\ boardStatus' = "loading" /\ errorText' = "none"

OpenGame(g) ==
  /\ open /\ listStatus = "loaded" /\ g \in games.games
  /\ selected' = g
  /\ FetchBoard(g)
  /\ UNCHANGED <<sessionVars, signedIn, listStatus, catalogStatus, games, names>>

Retry ==
  /\ open
  /\ \/ /\ boardStatus = "error" /\ selected # NoGame
        /\ FetchBoard(selected)
        /\ UNCHANGED <<listStatus, games, selected>>
     \/ /\ ~(boardStatus = "error" /\ selected # NoGame) /\ listStatus = "error"
        /\ Load(call, Exposed)
  /\ UNCHANGED <<sessionVars, signedIn, catalogStatus, names>>

\* Mutant: the reason of a failed board stays.
ClosesKeepingText == UNCHANGED errorText
Closes == errorText' = "none"

CloseGame ==
  /\ open /\ ~(selected = NoGame /\ boardStatus = "idle")
  /\ call' = Dead({"board"}, call)
  /\ board' = EmptyBoard /\ selected' = NoGame /\ boardStatus' = "idle"
  /\ Closes
  /\ UNCHANGED <<sessionVars, signedIn, listStatus, catalogStatus, games, names>>

-----------------------------------------------------------------------------
(* reset(), setSignedIn(), and the screen's onSignedIn                     *)

\* Mutant: a catalog in flight stays wanted.
ResetKeepingCatalog(calls) ==
  /\ call' = Dead({"list", "board"}, calls)
  /\ catalogStatus' = "none" /\ names' = NoAccount
  /\ listStatus' = "idle" /\ boardStatus' = "idle" /\ errorText' = "none"
  /\ games' = NoGames /\ selected' = NoGame /\ board' = EmptyBoard

Reset(calls) ==
  /\ call' = Dead(Kinds, calls)
  /\ catalogStatus' = "none" /\ names' = NoAccount
  /\ listStatus' = "idle" /\ boardStatus' = "idle" /\ errorText' = "none"
  /\ games' = NoGames /\ selected' = NoGame /\ board' = EmptyBoard

\* onSignedIn: whatever is not loaded is loaded again.
Reloads == listStatus # "loaded"

\* bindToSession(): stateChanged was emitted, with |calls| in flight.
Sync(calls) ==
  IF Exposed' = NoAccount THEN signedIn' = FALSE /\ Reset(calls)
  ELSE /\ signedIn' = TRUE
       /\ IF ~signedIn /\ open /\ Reloads
          THEN Load(calls, Exposed') /\ UNCHANGED <<catalogStatus, names>>
          ELSE /\ call' = calls
               /\ UNCHANGED <<listStatus, boardStatus, catalogStatus, errorText,
                              games, selected, board, names>>

SignIn ==
  /\ session = NoAccount
  /\ session' \in Accounts
  /\ UNCHANGED <<masked, open>>
  /\ Sync(call)

\* A sign-out, restart or switch: the session's generation ends.
EndSession ==
  /\ session # NoAccount
  /\ session' = NoAccount
  /\ UNCHANGED <<masked, open>>
  /\ Sync([c \in Calls |-> IF call[c] = Free THEN Free ELSE [call[c] EXCEPT !.same = FALSE]])

\* Another profile's clean-up fails, or has at last succeeded.
MaskChanges ==
  /\ masked' = ~masked
  /\ UNCHANGED <<session, open>>
  /\ Sync(call)

\* The state goes from one that is not SignedIn to another.
StateChanges ==
  /\ Exposed = NoAccount
  /\ UNCHANGED sessionVars
  /\ Sync(call)

OpenScreen ==
  /\ ~open
  /\ open' = TRUE
  /\ Load(call, Exposed)
  /\ UNCHANGED <<session, masked, signedIn, catalogStatus, names>>

CloseScreen ==
  /\ open /\ boardStatus = "idle"
  /\ open' = FALSE
  /\ UNCHANGED <<session, masked, signedIn, listStatus, boardStatus, catalogStatus,
                 errorText, games, selected, board, names, call>>

-----------------------------------------------------------------------------
(* Replies                                                                 *)

\* failList() and failBoard().
Fail(c, text) ==
  /\ errorText' = text
  /\ IF call[c].kind = "list"
     THEN listStatus' = "error" /\ UNCHANGED boardStatus
     ELSE boardStatus' = "error" /\ UNCHANGED listStatus

\* A reply that nobody waits for any more is dropped.
Drop(c) ==
  /\ ~call[c].live
  /\ call' = [call EXCEPT ![c] = Free]
  /\ UNCHANGED <<sessionVars, signedIn, listStatus, boardStatus, catalogStatus,
                 errorText, games, selected, board, names>>

\* Mutant: a refusal is ignored.
IgnoreRefusal(c) ==
  /\ call[c].live
  /\ call' = [call EXCEPT ![c] = Free]
  /\ UNCHANGED <<sessionVars, signedIn, listStatus, boardStatus, catalogStatus,
                 errorText, games, selected, board, names>>

\* requestAccessToken() has no token: the session is not, or no longer, what
\* it was, or the store fails.
TokenRefused(c) ==
  /\ call[c].live
  /\ call' = [call EXCEPT ![c] = Free]
  /\ Fail(c, IF ~signedIn THEN "signIn"
             ELSE IF call[c].same /\ Exposed # NoAccount THEN "storeFailed"
             ELSE "sessionEnded")
  /\ UNCHANGED <<sessionVars, signedIn, catalogStatus, games, selected, board, names>>

\* The token: the request is sent, and the catalog's unless there is one.
TokenGiven(c) ==
  /\ call[c].live /\ call[c].same /\ Exposed # NoAccount
  /\ IF call[c].kind = "list" /\ catalogStatus = "none"
     THEN /\ catalogStatus' = "loading"
          /\ \E d \in Calls :
               /\ call[d] = Free
               /\ call' = [call EXCEPT ![c].stage = "reply",
                             ![d] = [call[c] EXCEPT !.kind = "catalog", !.stage = "reply"]]
     ELSE /\ call' = [call EXCEPT ![c].stage = "reply"]
          /\ UNCHANGED catalogStatus
  /\ UNCHANGED <<sessionVars, signedIn, listStatus, boardStatus, errorText, games,
                 selected, board, names>>

TokenAnswered(c) ==
  /\ call[c] # Free /\ call[c].stage = "token"
  /\ Drop(c) \/ TokenRefused(c) \/ TokenGiven(c)

\* The list: its rows that can be opened.
ListArrives(c) ==
  /\ call[c].kind = "list"
  /\ \E G \in SUBSET Games : games' = [of |-> call[c].of, games |-> G]
  /\ listStatus' = "loaded"
  /\ UNCHANGED <<boardStatus, catalogStatus, errorText, board, names>>

\* Mutant: rows that are already there keep their labels.
NameLaterRows(n) == UNCHANGED board
\* setCardNames(): rows that are already there are labelled anew.
NameRows(n) ==
  board' = IF board.game = NoGame THEN board ELSE [board EXCEPT !.named = n]

\* setGame(): the rows, labelled with what names there are.
BoardArrives(c) ==
  /\ call[c].kind = "board"
  /\ board' = [of |-> call[c].of, game |-> call[c].game, named |-> names]
  /\ boardStatus' = "loaded"
  /\ UNCHANGED <<listStatus, catalogStatus, errorText, games, names>>

CatalogArrives(c) ==
  /\ call[c].kind = "catalog"
  /\ names' = call[c].of
  /\ NameRows(call[c].of)
  /\ catalogStatus' = "loaded"
  /\ UNCHANGED <<listStatus, boardStatus, errorText, games>>

\* A catalog that fails is only logged.
ReplyFails(c) ==
  /\ IF call[c].kind = "catalog"
     THEN catalogStatus' = "none" /\ UNCHANGED <<listStatus, boardStatus, errorText>>
     ELSE Fail(c, "request") /\ UNCHANGED catalogStatus
  /\ UNCHANGED <<games, board, names>>

Replied(c) ==
  /\ call[c] # Free /\ call[c].stage = "reply"
  /\ \/ Drop(c)
     \/ /\ call[c].live
        /\ call' = [call EXCEPT ![c] = Free]
        /\ ListArrives(c) \/ BoardArrives(c) \/ CatalogArrives(c) \/ ReplyFails(c)
        /\ UNCHANGED <<sessionVars, signedIn, selected>>

-----------------------------------------------------------------------------

Input ==
  \/ LoadGames \/ (\E g \in Games : OpenGame(g)) \/ Retry \/ CloseGame
  \/ OpenScreen \/ CloseScreen
  \/ SignIn \/ EndSession \/ MaskChanges \/ StateChanges

Next == Input \/ \E c \in Calls : TokenAnswered(c) \/ Replied(c)

\* The coordinator answers every token request (SessionCoordinator), the game
\* client every call (GameClient); nothing is assumed of the inputs.
Fairness == \A c \in Calls : WF_vars(TokenAnswered(c)) /\ WF_vars(Replied(c))

Spec == Init /\ [][Next]_vars /\ Fairness

-----------------------------------------------------------------------------
(* Properties                                                              *)

TypeOK ==
  /\ session \in Whoever
  /\ masked \in BOOLEAN /\ open \in BOOLEAN /\ signedIn \in BOOLEAN
  /\ listStatus \in {"idle", "loading", "loaded", "error"}
  /\ boardStatus \in {"idle", "loading", "loaded", "error"}
  /\ catalogStatus \in {"none", "loading", "loaded"}
  /\ errorText \in Texts
  /\ games \in GameLists
  /\ selected \in Games \cup {NoGame}
  /\ board \in Boards
  /\ names \in Whoever
  /\ call \in CallMaps

\* What is shown belongs to whoever the session shows as signed in, through
\* every sign-out, switch and masking, however late a reply is.
ShownIsOwn ==
  \A a \in {games.of, board.of, names} : a \in {NoAccount, Exposed}

\* Why that is: a fetch that is still wanted, and has or may get a token, is
\* of that account, too, and m_signedIn is what the session shows.
OwnCall(k, who) ==
  k # Free /\ k.live /\ (k.same \/ k.stage = "reply")
    => who # NoAccount /\ k.of = who
OwnCalls(calls, who) == \A c \in Calls : OwnCall(calls[c], who)
Ownership ==
  /\ TypeOK
  /\ ShownIsOwn
  /\ OwnCalls(call, Exposed)
  /\ signedIn <=> Exposed # NoAccount

\* The fetches of a kind whose replies are still wanted.
LiveIn(calls, kind) ==
  {c \in Calls : calls[c] # Free /\ calls[c].kind = kind /\ calls[c].live}
Live(kind) == LiveIn(call, kind)

\* The board that is shown, or is being fetched, is the one of the game that
\* was selected last, and its cards carry the catalog's names as soon as both
\* are there, whichever came first.
BoardIsSelected ==
  /\ board.game # NoGame =>
       board.game = selected /\ boardStatus = "loaded" /\ board.named = names
  /\ \A c \in Live("board") : call[c].game = selected

\* What is said to be loading has one fetch that will end it, and nothing
\* else has one.
LoadingHasItsFetch ==
  /\ listStatus = "loading" <=> Live("list") # {}
  /\ boardStatus = "loading" <=> Live("board") # {}
  /\ catalogStatus = "loading" <=> Live("catalog") # {}
  /\ \A kind \in Kinds : \A c, d \in Live(kind) : c = d

\* The screen agrees with the fetches: the board is the selected game's and is
\* named, what is loading has its one fetch, and a catalog waits for its reply
\* only, as it needs no token.
Selection ==
  /\ BoardIsSelected /\ LoadingHasItsFetch
  /\ \A c \in Calls : call[c] # Free /\ call[c].kind = "catalog" => call[c].stage = "reply"

\* Nothing is loading for ever, unless it is asked for again for ever.
LoadingEnds ==
  \/ []<>(listStatus # "loading" /\ boardStatus # "loading")
  \/ []<><<Input>>_vars
=============================================================================
