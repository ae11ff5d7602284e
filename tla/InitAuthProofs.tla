--------------------------- MODULE InitAuthProofs ---------------------------
(***************************************************************************)
(* The authorisation of init writes, for any number of pages, commands,    *)
(* tokens and restarts.                                                    *)
(***************************************************************************)
EXTENDS InitAuth, TLAPS

\* What the stores hold: the token is the latest and has no grant yet, the grant
\* is of the latest token and unspent, except while a refresh is half done.
Authority ==
  /\ token # NoToken =>
       /\ token.id = issued /\ issued > 0
       /\ \A i \in 1..Len(origin) : origin[i] # issued
  /\ grant # NoGrant =>
       /\ grant.grant_id \in 1..Len(origin) \ spent
       /\ \/ token = NoToken /\ origin[grant.grant_id] = issued
          \/ \E p \in Pages : stage[p] = "rotated"

\* What a command may rely on between two sections of its handler.
Sections ==
  \A c \in Commands :
    /\ stage[c] = "exchanged" =>
         /\ token = NoToken /\ grant = NoGrant
         /\ presented[c] = issued /\ issued > 0
         /\ \A i \in 1..Len(origin) : origin[i] # issued
    /\ stage[c] = "consumed" =>
         /\ held[c].grant_id \in 1..Len(origin) \ spent
         /\ origin[held[c].grant_id] = issued
    /\ stage[c] \notin {"idle", "authing", "exchanging", "exchanged"} => held[c] \in Tickets

InitAuthInv == InitAuthTypeOK /\ Authority /\ Sections /\ OneGrantPerToken

\* A server that has just started holds nothing, and no command has anything.
THEOREM InitAuthInitInv == Init => InitAuthInv
  BY InitAuthAssumption
  DEF Init, InitAuthInv, InitAuthTypeOK, ServerTyped, StagesTyped, ClientsTyped, HistoryTyped,
      Authority, Sections, OneGrantPerToken, PageStages, CommandStages, Locked

\* One case per action.  Whoever moves from one store to the other has the
\* transition lock, so nobody else is between two sections of a handler.
THEOREM InitAuthStepInv == InitAuthInv /\ [Next]_vars => InitAuthInv'
  <1>. SUFFICES ASSUME InitAuthInv, [Next]_vars PROVE InitAuthInv'
    OBVIOUS
  <1>1. ASSUME NEW p \in Pages, BeginRefresh(p)
        PROVE  InitAuthInv'
    BY <1>1, InitAuthAssumption, SMTT(40)
    DEF BeginRefresh, At, Go, Lock, history, InitAuthInv, InitAuthTypeOK, ServerTyped,
        StagesTyped, ClientsTyped, HistoryTyped, Authority, Sections, OneGrantPerToken, Tokens,
        Grants, Tickets, PageStages, CommandStages, Locked
  <1>2. ASSUME NEW p \in Pages, RefreshToken(p)
        PROVE  InitAuthInv'
    <2>1. InitAuthTypeOK'
      <3>1. ServerTyped'
        BY <1>2, InitAuthAssumption
        DEF RefreshToken, At, Go, InitAuthInv, InitAuthTypeOK, ServerTyped, HistoryTyped,
            Tokens, Grants, Tickets
      <3>2. StagesTyped'
        BY <1>2, InitAuthAssumption
        DEF RefreshToken, At, Go, InitAuthInv, InitAuthTypeOK, StagesTyped, PageStages,
            CommandStages, Locked
      <3>3. ClientsTyped'
        BY <1>2, InitAuthAssumption
        DEF RefreshToken, At, Go, InitAuthInv, InitAuthTypeOK, ServerTyped, ClientsTyped,
            HistoryTyped, Sections, Tickets
      <3>4. HistoryTyped'
        BY <1>2, InitAuthAssumption, SMTT(40)
        DEF RefreshToken, At, Go, InitAuthInv, InitAuthTypeOK, StagesTyped, ClientsTyped,
            HistoryTyped, Sections, Tickets
      <3>. QED
        BY <3>1, <3>2, <3>3, <3>4 DEF InitAuthTypeOK
    <2>2. Authority'
      BY <1>2, InitAuthAssumption
      DEF RefreshToken, At, Go, InitAuthInv, InitAuthTypeOK, ServerTyped, StagesTyped,
          ClientsTyped, HistoryTyped, Authority, Sections, Grants, Tokens, Locked
    <2>3. Sections'
      BY <1>2, InitAuthAssumption
      DEF RefreshToken, At, Go, InitAuthInv, InitAuthTypeOK, ServerTyped, StagesTyped,
          ClientsTyped, HistoryTyped, Authority, Sections, Tickets, Grants, Locked,
          CommandStages
    <2>4. OneGrantPerToken'
      BY <1>2, InitAuthAssumption
      DEF RefreshToken, At, Go, InitAuthInv, InitAuthTypeOK, HistoryTyped, OneGrantPerToken
    <2>. QED
      BY <2>1, <2>2, <2>3, <2>4 DEF InitAuthInv
  <1>3. ASSUME NEW p \in Pages, ClearGrant(p)
        PROVE  InitAuthInv'
    BY <1>3, InitAuthAssumption, SMTT(40)
    DEF ClearGrant, At, Go, Unlock, history, InitAuthInv, InitAuthTypeOK, ServerTyped,
        StagesTyped, ClientsTyped, HistoryTyped, Authority, Sections, OneGrantPerToken, Tokens,
        Grants, Tickets, PageStages, CommandStages, Locked
  <1>4. ASSUME NEW c \in Commands, BeginExchange(c)
        PROVE  InitAuthInv'
    BY <1>4, InitAuthAssumption, SMTT(40)
    DEF BeginExchange, At, Go, Lock, history, InitAuthInv, InitAuthTypeOK, ServerTyped,
        StagesTyped, ClientsTyped, HistoryTyped, Authority, Sections, OneGrantPerToken, Tokens,
        Grants, Tickets, PageStages, CommandStages, Locked
  <1>5. ASSUME NEW c \in Commands, ConsumeToken(c)
        PROVE  InitAuthInv'
    BY <1>5, InitAuthAssumption, SMTT(40)
    DEF ConsumeToken, At, Go, history, InitAuthInv, InitAuthTypeOK, ServerTyped, StagesTyped,
        ClientsTyped, HistoryTyped, Authority, Sections, OneGrantPerToken, Tokens, Grants,
        Tickets, PageStages, CommandStages, Locked
  <1>6. ASSUME NEW c \in Commands, RefuseToken(c)
        PROVE  InitAuthInv'
    <2>1. InitAuthTypeOK'
      <3>1. ServerTyped'
        BY <1>6, InitAuthAssumption
        DEF RefuseToken, At, Go, End, Unlock, history, InitAuthInv, InitAuthTypeOK,
            ServerTyped, HistoryTyped, Tokens, Grants, Tickets
      <3>2. StagesTyped'
        BY <1>6, InitAuthAssumption
        DEF RefuseToken, At, Go, End, Unlock, history, InitAuthInv, InitAuthTypeOK,
            StagesTyped, PageStages, CommandStages, Locked
      <3>3. ClientsTyped'
        BY <1>6, InitAuthAssumption
        DEF RefuseToken, At, Go, End, Unlock, history, InitAuthInv, InitAuthTypeOK,
            ServerTyped, ClientsTyped, HistoryTyped, Sections, Tickets
      <3>4. HistoryTyped'
        BY <1>6, InitAuthAssumption
        DEF RefuseToken, At, Go, End, Unlock, history, InitAuthInv, InitAuthTypeOK,
            StagesTyped, ClientsTyped, HistoryTyped, Sections, Tickets
      <3>. QED
        BY <3>1, <3>2, <3>3, <3>4 DEF InitAuthTypeOK
    <2>2. Authority'
      BY <1>6, InitAuthAssumption
      DEF RefuseToken, At, Go, End, Unlock, history, InitAuthInv, InitAuthTypeOK, ServerTyped,
          StagesTyped, ClientsTyped, HistoryTyped, Authority, Sections, Grants, Tokens, Locked
    <2>3. Sections'
      BY <1>6, InitAuthAssumption
      DEF RefuseToken, At, Go, End, Unlock, history, InitAuthInv, InitAuthTypeOK, ServerTyped,
          StagesTyped, ClientsTyped, HistoryTyped, Authority, Sections, Tickets, Grants,
          Locked, CommandStages
    <2>4. OneGrantPerToken'
      BY <1>6, InitAuthAssumption
      DEF RefuseToken, At, Go, End, Unlock, history, InitAuthInv, InitAuthTypeOK, HistoryTyped,
          OneGrantPerToken
    <2>. QED
      BY <2>1, <2>2, <2>3, <2>4 DEF InitAuthInv
  <1>7. ASSUME NEW c \in Commands, ReplaceGrant(c)
        PROVE  InitAuthInv'
    <2>1. /\ Len(origin') = Len(origin) + 1
          /\ origin'[Len(origin) + 1] = presented[c]
          /\ \A i \in 1..Len(origin) : origin'[i] = origin[i]
          /\ origin' \in Seq(Nat)
      BY <1>7 DEF ReplaceGrant, InitAuthInv, InitAuthTypeOK, ClientsTyped, HistoryTyped
    <2>2. ServerTyped'
      BY <1>7, <2>1, InitAuthAssumption
      DEF ReplaceGrant, At, Go, Unlock, InitAuthInv, InitAuthTypeOK, ServerTyped, HistoryTyped,
          Tokens, Grants, Tickets
    <2>3. StagesTyped'
      BY <1>7, <2>1, InitAuthAssumption
      DEF ReplaceGrant, At, Go, Unlock, InitAuthInv, InitAuthTypeOK, StagesTyped, PageStages,
          CommandStages, Locked
    <2>4. ClientsTyped'
      BY <1>7, <2>1, InitAuthAssumption
      DEF ReplaceGrant, At, Go, Unlock, InitAuthInv, InitAuthTypeOK, ServerTyped, ClientsTyped,
          HistoryTyped, Sections, Tickets
    <2>5. HistoryTyped'
      BY <1>7, <2>1, InitAuthAssumption
      DEF ReplaceGrant, At, Go, Unlock, InitAuthInv, InitAuthTypeOK, StagesTyped, ClientsTyped,
          HistoryTyped, Sections, Tickets
    <2>6. Authority'
      BY <1>7, <2>1, InitAuthAssumption
      DEF ReplaceGrant, At, Go, Unlock, InitAuthInv, InitAuthTypeOK, ServerTyped, StagesTyped,
          ClientsTyped, HistoryTyped, Authority, Sections, Grants, Tokens, Locked
    <2>7. Sections'
      BY <1>7, <2>1, InitAuthAssumption
      DEF ReplaceGrant, At, Go, Unlock, InitAuthInv, InitAuthTypeOK, ServerTyped, StagesTyped,
          ClientsTyped, HistoryTyped, Authority, Sections, Tickets, Grants, Locked,
          CommandStages
    <2>8. OneGrantPerToken'
      <3>1. /\ OneGrantPerToken /\ presented[c] = issued
            /\ \A i \in 1..Len(origin) : origin[i] # issued
            /\ Len(origin) \in Nat
        BY <1>7 DEF ReplaceGrant, At, InitAuthInv, InitAuthTypeOK, HistoryTyped, Sections
      <3>2. \A i \in 1..Len(origin') : i \in 1..Len(origin) \/ i = Len(origin) + 1
        BY <2>1, <3>1
      <3>. QED
        BY <2>1, <3>1, <3>2 DEF OneGrantPerToken
    <2>. QED
      BY <2>2, <2>3, <2>4, <2>5, <2>6, <2>7, <2>8 DEF InitAuthInv, InitAuthTypeOK
  <1>8. ASSUME NEW c \in Commands, OpenFile(c)
        PROVE  InitAuthInv'
    BY <1>8, InitAuthAssumption, ZenonT(60)
    DEF OpenFile, At, Go, server, history, InitAuthInv, InitAuthTypeOK, ServerTyped,
        StagesTyped, ClientsTyped, HistoryTyped, Authority, Sections, OneGrantPerToken, Tokens,
        Grants, Tickets, PageStages, CommandStages, Locked
  <1>9. ASSUME NEW c \in Commands, WriteFile(c)
        PROVE  InitAuthInv'
    <2>1. InitAuthTypeOK'
      <3>1. ServerTyped'
        BY <1>9, InitAuthAssumption
        DEF WriteFile, At, Go, End, server, history, InitAuthInv, InitAuthTypeOK, ServerTyped,
            HistoryTyped, Tokens, Grants, Tickets
      <3>2. StagesTyped'
        BY <1>9, InitAuthAssumption
        DEF WriteFile, At, Go, End, server, history, InitAuthInv, InitAuthTypeOK, StagesTyped,
            PageStages, CommandStages, Locked
      <3>3. ClientsTyped'
        BY <1>9, InitAuthAssumption
        DEF WriteFile, At, Go, End, server, history, InitAuthInv, InitAuthTypeOK, ServerTyped,
            ClientsTyped, HistoryTyped, Sections, Tickets
      <3>4. HistoryTyped'
        BY <1>9, InitAuthAssumption
        DEF WriteFile, At, Go, End, server, history, InitAuthInv, InitAuthTypeOK, StagesTyped,
            ClientsTyped, HistoryTyped, Sections, Tickets
      <3>. QED
        BY <3>1, <3>2, <3>3, <3>4 DEF InitAuthTypeOK
    <2>2. Authority'
      BY <1>9, InitAuthAssumption
      DEF WriteFile, At, Go, End, server, history, InitAuthInv, InitAuthTypeOK, ServerTyped,
          StagesTyped, ClientsTyped, HistoryTyped, Authority, Sections, Grants, Tokens, Locked
    <2>3. Sections'
      BY <1>9, InitAuthAssumption, SMTT(40)
      DEF WriteFile, At, Go, End, server, history, InitAuthInv, InitAuthTypeOK, ServerTyped,
          StagesTyped, ClientsTyped, HistoryTyped, Authority, Sections, Tickets, Grants,
          Locked, CommandStages
    <2>4. OneGrantPerToken'
      BY <1>9, InitAuthAssumption
      DEF WriteFile, At, Go, End, server, history, InitAuthInv, InitAuthTypeOK, HistoryTyped,
          OneGrantPerToken
    <2>. QED
      BY <2>1, <2>2, <2>3, <2>4 DEF InitAuthInv
  <1>10. ASSUME NEW c \in Commands, ReadFile(c)
        PROVE  InitAuthInv'
    <2>1. InitAuthTypeOK'
      <3>1. ServerTyped'
        BY <1>10, InitAuthAssumption
        DEF ReadFile, At, Go, server, history, InitAuthInv, InitAuthTypeOK, ServerTyped,
            HistoryTyped, Tokens, Grants, Tickets
      <3>2. StagesTyped'
        BY <1>10, InitAuthAssumption
        DEF ReadFile, At, Go, server, history, InitAuthInv, InitAuthTypeOK, StagesTyped,
            PageStages, CommandStages, Locked
      <3>3. ClientsTyped'
        BY <1>10, InitAuthAssumption
        DEF ReadFile, At, Go, server, history, InitAuthInv, InitAuthTypeOK, ServerTyped,
            ClientsTyped, HistoryTyped, Sections, Tickets
      <3>4. HistoryTyped'
        BY <1>10, InitAuthAssumption
        DEF ReadFile, At, Go, server, history, InitAuthInv, InitAuthTypeOK, StagesTyped,
            ClientsTyped, HistoryTyped, Sections, Tickets
      <3>. QED
        BY <3>1, <3>2, <3>3, <3>4 DEF InitAuthTypeOK
    <2>2. Authority'
      BY <1>10, InitAuthAssumption
      DEF ReadFile, At, Go, server, history, InitAuthInv, InitAuthTypeOK, ServerTyped,
          StagesTyped, ClientsTyped, HistoryTyped, Authority, Sections, Grants, Tokens, Locked
    <2>3. Sections'
      BY <1>10, InitAuthAssumption, ZenonT(60)
      DEF ReadFile, At, Go, server, history, InitAuthInv, InitAuthTypeOK, ServerTyped,
          StagesTyped, ClientsTyped, HistoryTyped, Authority, Sections, Tickets, Grants,
          Locked, CommandStages
    <2>4. OneGrantPerToken'
      BY <1>10, InitAuthAssumption
      DEF ReadFile, At, Go, server, history, InitAuthInv, InitAuthTypeOK, HistoryTyped,
          OneGrantPerToken
    <2>. QED
      BY <2>1, <2>2, <2>3, <2>4 DEF InitAuthInv
  <1>11. ASSUME NEW c \in Commands, DiscardFile(c)
        PROVE  InitAuthInv'
    BY <1>11, InitAuthAssumption
    DEF DiscardFile, At, server, history, InitAuthInv, InitAuthTypeOK, ServerTyped,
        StagesTyped, ClientsTyped, HistoryTyped, Authority, Sections, OneGrantPerToken, Tokens,
        Grants, Tickets, PageStages, CommandStages, Locked
  <1>12. ASSUME NEW c \in Commands, RejectSignature(c)
        PROVE  InitAuthInv'
    <2>1. InitAuthTypeOK'
      <3>1. ServerTyped'
        BY <1>12, InitAuthAssumption
        DEF RejectSignature, At, Go, server, history, InitAuthInv, InitAuthTypeOK, ServerTyped,
            HistoryTyped, Tokens, Grants, Tickets
      <3>2. StagesTyped'
        BY <1>12, InitAuthAssumption
        DEF RejectSignature, At, Go, server, history, InitAuthInv, InitAuthTypeOK, StagesTyped,
            PageStages, CommandStages, Locked
      <3>3. ClientsTyped'
        BY <1>12, InitAuthAssumption
        DEF RejectSignature, At, Go, server, history, InitAuthInv, InitAuthTypeOK, ServerTyped,
            ClientsTyped, HistoryTyped, Sections, Tickets
      <3>4. HistoryTyped'
        BY <1>12, InitAuthAssumption
        DEF RejectSignature, At, Go, server, history, InitAuthInv, InitAuthTypeOK, StagesTyped,
            ClientsTyped, HistoryTyped, Sections, Tickets
      <3>. QED
        BY <3>1, <3>2, <3>3, <3>4 DEF InitAuthTypeOK
    <2>2. Authority'
      BY <1>12, InitAuthAssumption
      DEF RejectSignature, At, Go, server, history, InitAuthInv, InitAuthTypeOK, ServerTyped,
          StagesTyped, ClientsTyped, HistoryTyped, Authority, Sections, Grants, Tokens, Locked
    <2>3. Sections'
      BY <1>12, InitAuthAssumption
      DEF RejectSignature, At, Go, server, history, InitAuthInv, InitAuthTypeOK, ServerTyped,
          StagesTyped, ClientsTyped, HistoryTyped, Authority, Sections, Tickets, Grants,
          Locked, CommandStages
    <2>4. OneGrantPerToken'
      BY <1>12, InitAuthAssumption
      DEF RejectSignature, At, Go, server, history, InitAuthInv, InitAuthTypeOK, HistoryTyped,
          OneGrantPerToken
    <2>. QED
      BY <2>1, <2>2, <2>3, <2>4 DEF InitAuthInv
  <1>13. ASSUME NEW c \in Commands, BeginConsume(c)
        PROVE  InitAuthInv'
    <2>1. InitAuthTypeOK'
      <3>1. ServerTyped'
        BY <1>13, InitAuthAssumption
        DEF BeginConsume, At, Go, Lock, history, InitAuthInv, InitAuthTypeOK, ServerTyped,
            HistoryTyped, Tokens, Grants, Tickets
      <3>2. StagesTyped'
        BY <1>13, InitAuthAssumption
        DEF BeginConsume, At, Go, Lock, history, InitAuthInv, InitAuthTypeOK, StagesTyped,
            PageStages, CommandStages, Locked
      <3>3. ClientsTyped'
        BY <1>13, InitAuthAssumption
        DEF BeginConsume, At, Go, Lock, history, InitAuthInv, InitAuthTypeOK, ServerTyped,
            ClientsTyped, HistoryTyped, Sections, Tickets
      <3>4. HistoryTyped'
        BY <1>13, InitAuthAssumption
        DEF BeginConsume, At, Go, Lock, history, InitAuthInv, InitAuthTypeOK, StagesTyped,
            ClientsTyped, HistoryTyped, Sections, Tickets
      <3>. QED
        BY <3>1, <3>2, <3>3, <3>4 DEF InitAuthTypeOK
    <2>2. Authority'
      BY <1>13, InitAuthAssumption
      DEF BeginConsume, At, Go, Lock, history, InitAuthInv, InitAuthTypeOK, ServerTyped,
          StagesTyped, ClientsTyped, HistoryTyped, Authority, Sections, Grants, Tokens, Locked
    <2>3. Sections'
      BY <1>13, InitAuthAssumption
      DEF BeginConsume, At, Go, Lock, history, InitAuthInv, InitAuthTypeOK, ServerTyped,
          StagesTyped, ClientsTyped, HistoryTyped, Authority, Sections, Tickets, Grants,
          Locked, CommandStages
    <2>4. OneGrantPerToken'
      BY <1>13, InitAuthAssumption
      DEF BeginConsume, At, Go, Lock, history, InitAuthInv, InitAuthTypeOK, HistoryTyped,
          OneGrantPerToken
    <2>. QED
      BY <2>1, <2>2, <2>3, <2>4 DEF InitAuthInv
  <1>14. ASSUME NEW c \in Commands, ConsumeGrant(c)
        PROVE  InitAuthInv'
    <2>1. InitAuthTypeOK'
      <3>1. ServerTyped'
        BY <1>14, InitAuthAssumption
        DEF ConsumeGrant, At, Go, MatchesGrant, history, InitAuthInv, InitAuthTypeOK,
            ServerTyped, HistoryTyped, Tokens, Grants, Tickets
      <3>2. StagesTyped'
        BY <1>14, InitAuthAssumption
        DEF ConsumeGrant, At, Go, MatchesGrant, history, InitAuthInv, InitAuthTypeOK,
            StagesTyped, PageStages, CommandStages, Locked
      <3>3. ClientsTyped'
        BY <1>14, InitAuthAssumption
        DEF ConsumeGrant, At, Go, MatchesGrant, history, InitAuthInv, InitAuthTypeOK,
            ServerTyped, ClientsTyped, HistoryTyped, Sections, Tickets
      <3>4. HistoryTyped'
        BY <1>14, InitAuthAssumption
        DEF ConsumeGrant, At, Go, MatchesGrant, history, InitAuthInv, InitAuthTypeOK,
            StagesTyped, ClientsTyped, HistoryTyped, Sections, Tickets
      <3>. QED
        BY <3>1, <3>2, <3>3, <3>4 DEF InitAuthTypeOK
    <2>2. Authority'
      BY <1>14, InitAuthAssumption
      DEF ConsumeGrant, At, Go, MatchesGrant, history, InitAuthInv, InitAuthTypeOK,
          ServerTyped, StagesTyped, ClientsTyped, HistoryTyped, Authority, Sections, Grants,
          Tokens, Locked
    <2>3. Sections'
      BY <1>14, InitAuthAssumption
      DEF ConsumeGrant, At, Go, MatchesGrant, history, InitAuthInv, InitAuthTypeOK,
          ServerTyped, StagesTyped, ClientsTyped, HistoryTyped, Authority, Sections, Tickets,
          Grants, Locked, CommandStages
    <2>4. OneGrantPerToken'
      BY <1>14, InitAuthAssumption
      DEF ConsumeGrant, At, Go, MatchesGrant, history, InitAuthInv, InitAuthTypeOK,
          HistoryTyped, OneGrantPerToken
    <2>. QED
      BY <2>1, <2>2, <2>3, <2>4 DEF InitAuthInv
  <1>15. ASSUME NEW c \in Commands, RefuseGrant(c)
        PROVE  InitAuthInv'
    <2>1. InitAuthTypeOK'
      <3>1. ServerTyped'
        BY <1>15, InitAuthAssumption
        DEF RefuseGrant, At, Go, Unlock, MatchesGrant, history, InitAuthInv, InitAuthTypeOK,
            ServerTyped, HistoryTyped, Tokens, Grants, Tickets
      <3>2. StagesTyped'
        BY <1>15, InitAuthAssumption
        DEF RefuseGrant, At, Go, Unlock, MatchesGrant, history, InitAuthInv, InitAuthTypeOK,
            StagesTyped, PageStages, CommandStages, Locked
      <3>3. ClientsTyped'
        BY <1>15, InitAuthAssumption
        DEF RefuseGrant, At, Go, Unlock, MatchesGrant, history, InitAuthInv, InitAuthTypeOK,
            ServerTyped, ClientsTyped, HistoryTyped, Sections, Tickets
      <3>4. HistoryTyped'
        BY <1>15, InitAuthAssumption
        DEF RefuseGrant, At, Go, Unlock, MatchesGrant, history, InitAuthInv, InitAuthTypeOK,
            StagesTyped, ClientsTyped, HistoryTyped, Sections, Tickets
      <3>. QED
        BY <3>1, <3>2, <3>3, <3>4 DEF InitAuthTypeOK
    <2>2. Authority'
      BY <1>15, InitAuthAssumption
      DEF RefuseGrant, At, Go, Unlock, MatchesGrant, history, InitAuthInv, InitAuthTypeOK,
          ServerTyped, StagesTyped, ClientsTyped, HistoryTyped, Authority, Sections, Grants,
          Tokens, Locked
    <2>3. Sections'
      BY <1>15, InitAuthAssumption
      DEF RefuseGrant, At, Go, Unlock, MatchesGrant, history, InitAuthInv, InitAuthTypeOK,
          ServerTyped, StagesTyped, ClientsTyped, HistoryTyped, Authority, Sections, Tickets,
          Grants, Locked, CommandStages
    <2>4. OneGrantPerToken'
      BY <1>15, InitAuthAssumption
      DEF RefuseGrant, At, Go, Unlock, MatchesGrant, history, InitAuthInv, InitAuthTypeOK,
          HistoryTyped, OneGrantPerToken
    <2>. QED
      BY <2>1, <2>2, <2>3, <2>4 DEF InitAuthInv
  <1>16. ASSUME NEW c \in Commands, RefuseExpired(c)
        PROVE  InitAuthInv'
    <2>1. InitAuthTypeOK'
      <3>1. ServerTyped'
        BY <1>16, InitAuthAssumption
        DEF RefuseExpired, At, Go, Unlock, history, InitAuthInv, InitAuthTypeOK, ServerTyped,
            HistoryTyped, Tokens, Grants, Tickets
      <3>2. StagesTyped'
        BY <1>16, InitAuthAssumption
        DEF RefuseExpired, At, Go, Unlock, history, InitAuthInv, InitAuthTypeOK, StagesTyped,
            PageStages, CommandStages, Locked
      <3>3. ClientsTyped'
        BY <1>16, InitAuthAssumption
        DEF RefuseExpired, At, Go, Unlock, history, InitAuthInv, InitAuthTypeOK, ServerTyped,
            ClientsTyped, HistoryTyped, Sections, Tickets
      <3>4. HistoryTyped'
        BY <1>16, InitAuthAssumption
        DEF RefuseExpired, At, Go, Unlock, history, InitAuthInv, InitAuthTypeOK, StagesTyped,
            ClientsTyped, HistoryTyped, Sections, Tickets
      <3>. QED
        BY <3>1, <3>2, <3>3, <3>4 DEF InitAuthTypeOK
    <2>2. Authority'
      BY <1>16, InitAuthAssumption
      DEF RefuseExpired, At, Go, Unlock, history, InitAuthInv, InitAuthTypeOK, ServerTyped,
          StagesTyped, ClientsTyped, HistoryTyped, Authority, Sections, Grants, Tokens, Locked
    <2>3. Sections'
      BY <1>16, InitAuthAssumption
      DEF RefuseExpired, At, Go, Unlock, history, InitAuthInv, InitAuthTypeOK, ServerTyped,
          StagesTyped, ClientsTyped, HistoryTyped, Authority, Sections, Tickets, Grants,
          Locked, CommandStages
    <2>4. OneGrantPerToken'
      BY <1>16, InitAuthAssumption
      DEF RefuseExpired, At, Go, Unlock, history, InitAuthInv, InitAuthTypeOK, HistoryTyped,
          OneGrantPerToken
    <2>. QED
      BY <2>1, <2>2, <2>3, <2>4 DEF InitAuthInv
  <1>17. ASSUME NEW c \in Commands, ClearAuthorization(c)
        PROVE  InitAuthInv'
    <2>1. InitAuthTypeOK'
      <3>1. ServerTyped'
        BY <1>17, InitAuthAssumption
        DEF ClearAuthorization, At, Go, Unlock, InitAuthInv, InitAuthTypeOK, ServerTyped,
            HistoryTyped, Tokens, Grants, Tickets
      <3>2. StagesTyped'
        BY <1>17, InitAuthAssumption
        DEF ClearAuthorization, At, Go, Unlock, InitAuthInv, InitAuthTypeOK, StagesTyped,
            PageStages, CommandStages, Locked
      <3>3. ClientsTyped'
        BY <1>17, InitAuthAssumption
        DEF ClearAuthorization, At, Go, Unlock, InitAuthInv, InitAuthTypeOK, ServerTyped,
            ClientsTyped, HistoryTyped, Sections, Tickets
      <3>4. HistoryTyped'
        BY <1>17, InitAuthAssumption
        DEF ClearAuthorization, At, Go, Unlock, InitAuthInv, InitAuthTypeOK, StagesTyped,
            ClientsTyped, HistoryTyped, Sections, Tickets
      <3>. QED
        BY <3>1, <3>2, <3>3, <3>4 DEF InitAuthTypeOK
    <2>2. Authority'
      BY <1>17, InitAuthAssumption
      DEF ClearAuthorization, At, Go, Unlock, InitAuthInv, InitAuthTypeOK, ServerTyped,
          StagesTyped, ClientsTyped, HistoryTyped, Authority, Sections, Grants, Tokens, Locked
    <2>3. Sections'
      BY <1>17, InitAuthAssumption
      DEF ClearAuthorization, At, Go, Unlock, InitAuthInv, InitAuthTypeOK, ServerTyped,
          StagesTyped, ClientsTyped, HistoryTyped, Authority, Sections, Tickets, Grants,
          Locked, CommandStages
    <2>4. OneGrantPerToken'
      BY <1>17, InitAuthAssumption
      DEF ClearAuthorization, At, Go, Unlock, InitAuthInv, InitAuthTypeOK, HistoryTyped,
          OneGrantPerToken
    <2>. QED
      BY <2>1, <2>2, <2>3, <2>4 DEF InitAuthInv
  <1>18. ASSUME NEW c \in Commands, RemoveFile(c)
        PROVE  InitAuthInv'
    <2>1. InitAuthTypeOK'
      <3>1. ServerTyped'
        BY <1>18, InitAuthAssumption
        DEF RemoveFile, Go, End, server, history, InitAuthInv, InitAuthTypeOK, ServerTyped,
            HistoryTyped, Tokens, Grants, Tickets
      <3>2. StagesTyped'
        BY <1>18, InitAuthAssumption
        DEF RemoveFile, Go, End, server, history, InitAuthInv, InitAuthTypeOK, StagesTyped,
            PageStages, CommandStages, Locked
      <3>3. ClientsTyped'
        BY <1>18, InitAuthAssumption
        DEF RemoveFile, Go, End, server, history, InitAuthInv, InitAuthTypeOK, ServerTyped,
            ClientsTyped, HistoryTyped, Sections, Tickets
      <3>4. HistoryTyped'
        BY <1>18, InitAuthAssumption
        DEF RemoveFile, Go, End, server, history, InitAuthInv, InitAuthTypeOK, StagesTyped,
            ClientsTyped, HistoryTyped, Sections, Tickets
      <3>. QED
        BY <3>1, <3>2, <3>3, <3>4 DEF InitAuthTypeOK
    <2>2. Authority'
      BY <1>18, InitAuthAssumption
      DEF RemoveFile, Go, End, server, history, InitAuthInv, InitAuthTypeOK, ServerTyped,
          StagesTyped, ClientsTyped, HistoryTyped, Authority, Sections, Grants, Tokens, Locked
    <2>3. Sections'
      BY <1>18, InitAuthAssumption
      DEF RemoveFile, Go, End, server, history, InitAuthInv, InitAuthTypeOK, ServerTyped,
          StagesTyped, ClientsTyped, HistoryTyped, Authority, Sections, Tickets, Grants,
          Locked, CommandStages
    <2>4. OneGrantPerToken'
      BY <1>18, InitAuthAssumption
      DEF RemoveFile, Go, End, server, history, InitAuthInv, InitAuthTypeOK, HistoryTyped,
          OneGrantPerToken
    <2>. QED
      BY <2>1, <2>2, <2>3, <2>4 DEF InitAuthInv
  <1>19. ASSUME NEW c \in Commands, Die(c)
        PROVE  InitAuthInv'
    BY <1>19, InitAuthAssumption
    DEF Die, Go, End, server, history, InitAuthInv, InitAuthTypeOK, ServerTyped, StagesTyped,
        ClientsTyped, HistoryTyped, Authority, Sections, OneGrantPerToken, Tokens, Grants,
        Tickets, PageStages, CommandStages, Locked
  <1>20. ASSUME NEW c \in Commands, NEW t \in 1..issued, BeginAuth(c, t)
        PROVE  InitAuthInv'
    <2>1. InitAuthTypeOK'
      <3>1. ServerTyped'
        BY <1>20, InitAuthAssumption
        DEF BeginAuth, At, Go, server, history, InitAuthInv, InitAuthTypeOK, ServerTyped,
            HistoryTyped, Tokens, Grants, Tickets
      <3>2. StagesTyped'
        BY <1>20, InitAuthAssumption
        DEF BeginAuth, At, Go, server, history, InitAuthInv, InitAuthTypeOK, StagesTyped,
            PageStages, CommandStages, Locked
      <3>3. ClientsTyped'
        BY <1>20, InitAuthAssumption
        DEF BeginAuth, At, Go, server, history, InitAuthInv, InitAuthTypeOK, ServerTyped,
            ClientsTyped, HistoryTyped, Sections, Tickets
      <3>4. HistoryTyped'
        BY <1>20, InitAuthAssumption
        DEF BeginAuth, At, Go, server, history, InitAuthInv, InitAuthTypeOK, StagesTyped,
            ClientsTyped, HistoryTyped, Sections, Tickets
      <3>. QED
        BY <3>1, <3>2, <3>3, <3>4 DEF InitAuthTypeOK
    <2>2. Authority'
      BY <1>20, InitAuthAssumption
      DEF BeginAuth, At, Go, server, history, InitAuthInv, InitAuthTypeOK, ServerTyped,
          StagesTyped, ClientsTyped, HistoryTyped, Authority, Sections, Grants, Tokens, Locked
    <2>3. Sections'
      BY <1>20, InitAuthAssumption, ZenonT(60)
      DEF BeginAuth, At, Go, server, history, InitAuthInv, InitAuthTypeOK, ServerTyped,
          StagesTyped, ClientsTyped, HistoryTyped, Authority, Sections, Tickets, Grants,
          Locked, CommandStages
    <2>4. OneGrantPerToken'
      BY <1>20, InitAuthAssumption
      DEF BeginAuth, At, Go, server, history, InitAuthInv, InitAuthTypeOK, HistoryTyped,
          OneGrantPerToken
    <2>. QED
      BY <2>1, <2>2, <2>3, <2>4 DEF InitAuthInv
  <1>21. CASE AuthStatus
    BY <1>21, InitAuthAssumption
    DEF AuthStatus, client, history, InitAuthInv, InitAuthTypeOK, ServerTyped, StagesTyped,
        ClientsTyped, HistoryTyped, Authority, Sections, OneGrantPerToken
  <1>22. CASE Restart
    <2>1. ServerTyped'
      BY <1>22, InitAuthAssumption
      DEF Restart, history, InitAuthInv, InitAuthTypeOK, ServerTyped, HistoryTyped, Tokens,
          Grants, Tickets
    <2>2. StagesTyped'
      BY <1>22, InitAuthAssumption
      DEF Restart, history, InitAuthInv, InitAuthTypeOK, StagesTyped, PageStages,
          CommandStages, Locked
    <2>3. ClientsTyped'
      BY <1>22, InitAuthAssumption
      DEF Restart, history, InitAuthInv, InitAuthTypeOK, ServerTyped, ClientsTyped,
          HistoryTyped, Sections, Tickets
    <2>4. HistoryTyped'
      BY <1>22, InitAuthAssumption
      DEF Restart, history, InitAuthInv, InitAuthTypeOK, StagesTyped, ClientsTyped,
          HistoryTyped, Sections, Tickets
    <2>5. Authority'
      BY <1>22, InitAuthAssumption
      DEF Restart, history, InitAuthInv, InitAuthTypeOK, ServerTyped, StagesTyped,
          ClientsTyped, HistoryTyped, Authority, Sections, Grants, Tokens, Locked
    <2>6. Sections'
      BY <1>22, InitAuthAssumption
      DEF Restart, history, InitAuthInv, InitAuthTypeOK, ServerTyped, StagesTyped,
          ClientsTyped, HistoryTyped, Authority, Sections, Tickets, Grants, Locked,
          CommandStages
    <2>7. OneGrantPerToken'
      BY <1>22, InitAuthAssumption
      DEF Restart, history, InitAuthInv, InitAuthTypeOK, HistoryTyped, OneGrantPerToken
    <2>. QED
      BY <2>1, <2>2, <2>3, <2>4, <2>5, <2>6, <2>7 DEF InitAuthInv, InitAuthTypeOK
  <1>23. CASE Tick
    BY <1>23, InitAuthAssumption
    DEF Tick, server, client, history, InitAuthInv, InitAuthTypeOK, ServerTyped, StagesTyped,
        ClientsTyped, HistoryTyped, Authority, Sections, OneGrantPerToken
  <1>24. CASE UNCHANGED vars
    BY <1>24
    DEF vars, server, client, history, InitAuthInv, InitAuthTypeOK, ServerTyped, StagesTyped,
        ClientsTyped, HistoryTyped, Authority, Sections, OneGrantPerToken
  <1>. QED
    BY <1>1, <1>2, <1>3, <1>4, <1>5, <1>6, <1>7, <1>8, <1>9, <1>10, <1>11, <1>12,
       <1>13, <1>14, <1>15, <1>16, <1>17, <1>18, <1>19, <1>20, <1>21, <1>22, <1>23, <1>24
    DEF Next, PageStep, AuthStep, CreateStep

-----------------------------------------------------------------------------

\* The inductive invariant holds of every behaviour.
THEOREM InitAuthInvariant == Spec => []InitAuthInv
  BY InitAuthInitInv, InitAuthStepInv, PTL DEF Spec

(***************************************************************************)
(* Types hold, and the transition lock is with the client whose handler is *)
(* between two sections (init_authorization_transition_lock).              *)
(***************************************************************************)
THEOREM InitAuthTypeCorrectness == Spec => []InitAuthTypeOK
  <1>1. InitAuthInv => InitAuthTypeOK
    BY DEF InitAuthInv
  <1>. QED
    BY <1>1, InitAuthInvariant, PTL

(***************************************************************************)
(* The server never keeps a token beside a grant (auth_refresh,            *)
(* auth_grant), so that clearing the token with an expired grant in        *)
(* auth_grant_consume finds none to clear.                                 *)
(***************************************************************************)
THEOREM OneAuthorizationHolds == Spec => []OneAuthorization
  <1>1. InitAuthInv => OneAuthorization
    BY InitAuthAssumption
    DEF InitAuthInv, InitAuthTypeOK, StagesTyped, Authority, OneAuthorization, Locked
  <1>. QED
    BY <1>1, InitAuthInvariant, PTL

(***************************************************************************)
(* A token yields one grant at most (InitAuthStore::consume_token).        *)
(***************************************************************************)
THEOREM OneGrantPerTokenHolds == Spec => []OneGrantPerToken
  <1>1. InitAuthInv => OneGrantPerToken
    BY DEF InitAuthInv
  <1>. QED
    BY <1>1, InitAuthInvariant, PTL

(***************************************************************************)
(* Only a grant of the latest token authorises a creation, and only once   *)
(* (auth_refresh, auth_grant_consume).                                     *)
(***************************************************************************)
THEOREM LatestAuthorizes == Spec => OnlyLatestAuthorizes
  <1> DEFINE Authorized ==
        \A c \in Commands :
          stage'[c] = "authorized" /\ stage[c] # "authorized" =>
            /\ held[c].grant_id \notin spent
            /\ origin[held[c].grant_id] = issued
  <1>1. InitAuthInv /\ [Next]_vars => [Authorized]_vars
    <2>. SUFFICES ASSUME InitAuthInv, Next, NEW c \in Commands,
                         stage'[c] = "authorized", stage[c] # "authorized"
                  PROVE  stage[c] = "consumed"
      BY DEF InitAuthInv, Sections
    <2>1. \A p \in Pages : ~PageStep(p)
      BY InitAuthAssumption
      DEF PageStep, BeginRefresh, RefreshToken, ClearGrant, Go, InitAuthInv, InitAuthTypeOK,
          StagesTyped
    <2>2. ASSUME NEW d \in Commands, AuthStep(d) PROVE FALSE
      BY <2>2
      DEF AuthStep, BeginAuth, BeginExchange, ConsumeToken, RefuseToken, ReplaceGrant, OpenFile,
          WriteFile, Go, End, InitAuthInv, InitAuthTypeOK, StagesTyped
    <2>3. ASSUME NEW d \in Commands, Die(d) PROVE FALSE
      BY <2>3 DEF Die, End, Go, InitAuthInv, InitAuthTypeOK, StagesTyped
    <2>4. ~AuthStatus /\ ~Restart /\ ~Tick
      BY DEF AuthStatus, Restart, Tick, client
    <2>5. ASSUME NEW d \in Commands, CreateStep(d) PROVE stage[c] = "consumed"
      BY <2>5
      DEF CreateStep, ReadFile, DiscardFile, RejectSignature, BeginConsume, ConsumeGrant, RefuseGrant,
          RefuseExpired, ClearAuthorization, RemoveFile, At, Go, End, InitAuthInv,
          InitAuthTypeOK, StagesTyped
    <2>. QED
      BY <2>1, <2>2, <2>3, <2>4, <2>5 DEF Next
  <1>. QED
    BY <1>1, InitAuthInvariant, PTL DEF Spec, OnlyLatestAuthorizes
=============================================================================
