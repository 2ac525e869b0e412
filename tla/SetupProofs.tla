----------------------------- MODULE SetupProofs -----------------------------
(***************************************************************************)
(* Proofs about Setup, for any names, any number of switches to TLS and    *)
(* any server that keeps to the protocol.                                  *)
(***************************************************************************)
EXTENDS Setup, TLAPS

(* The commands of the two dialogues, and the order they are sent in. *)
LEMMA StepFacts ==
  /\ Steps = {"AUTH", "PBSZ", "PROT", "USER", "PASS", "PASV", "TYPE", "SBSENDEOL",
              "MBSENDEOL", "SYST"}
  /\ LoginSteps = {"USER", "PASS", "PASV", "TYPE", "SBSENDEOL", "MBSENDEOL", "SYST"}
  /\ NextStep["AUTH"] = "PBSZ" /\ NextStep["PBSZ"] = "PROT" /\ NextStep["PROT"] = "idle"
  /\ NextStep["USER"] = "PASS" /\ NextStep["PASS"] = "PASV" /\ NextStep["PASV"] = "TYPE"
  /\ NextStep["TYPE"] = "SBSENDEOL" /\ NextStep["SBSENDEOL"] = "MBSENDEOL"
  /\ NextStep["MBSENDEOL"] = "SYST" /\ NextStep["SYST"] = "idle"
BY DEF Steps, NextStep, AuthSteps, LoginSteps

(* No message is neither a command nor a reply. *)
LEMMA NoMsgFacts == NoMsg.cmd = "none" /\ NoMsg.code = "none" /\ NoMsg.layer = 0
BY DEF NoMsg

(* The session before dialControl satisfies the inductive invariant. *)
LEMMA InitIInv == Init => IInv
<1> SUFFICES ASSUME Init PROVE IInv
  OBVIOUS
<1>1. Position /\ Records /\ Connection
  BY StepFacts DEF Init, Position, Records, Connection
<1>2. Flags
  BY DEF Init, Flags
<1>3. Messages
  BY StepFacts DEF Init, Messages, NoMsg
<1>4. Wire /\ Upgrade
  BY StepFacts DEF Init, Wire, Upgrade, NoMsg
<1>5. Dialogue /\ NoOrphan
  BY StepFacts DEF Init, Dialogue, NoOrphan, UserWasAccepted, AuthSteps, NoMsg
<1> QED
  BY <1>1, <1>2, <1>3, <1>4, <1>5 DEF IInv, TypeOK

(* A step keeps the caller's position and call in their types.             *)
LEMMA PositionStep == IInv /\ [Next]_vars => Position'
<1> SUFFICES ASSUME IInv, [Next]_vars PROVE Position'
  OBVIOUS
<1> USE StepFacts DEF IInv, TypeOK, Position, callerVars, session, wire, server, ghost
<1>1. ASSUME dialControl PROVE Position'
  BY <1>1 DEF dialControl
<1>2. ASSUME Open PROVE Position'
  BY <1>2 DEF Open
<1>3. ASSUME OpenFails PROVE Position'
  BY <1>3 DEF OpenFails
<1>4. ASSUME AuthTLS PROVE Position'
  BY <1>4 DEF AuthTLS, MayAuthTLS
<1>5. ASSUME NEW n \in Names, Login(n) PROVE Position'
  BY <1>5 DEF Login, MayLogin
<1>6. ASSUME Reject PROVE Position'
  BY <1>6 DEF Reject
<1>7. ASSUME Handshake PROVE Position'
  BY <1>7 DEF Handshake
<1>8. ASSUME HandshakeFails PROVE Position'
  BY <1>8 DEF HandshakeFails, closeLocked
<1>9. ASSUME Write PROVE Position'
  BY <1>9 DEF Write
<1>10. ASSUME RecvOK PROVE Position'
  BY <1>10 DEF RecvOK, Swap, Record
<1>11. ASSUME RecvOther PROVE Position'
  BY <1>11 DEF RecvOther
<1>12. ASSUME IOFail PROVE Position'
  BY <1>12 DEF IOFail, closeLocked
<1>13. ASSUME Poke PROVE Position'
  BY <1>13 DEF Poke
<1>14. ASSUME Close PROVE Position'
  BY <1>14 DEF Close, closeLocked
<1>15. ASSUME newChildConnection PROVE Position'
  BY <1>15 DEF newChildConnection
<1>16. ASSUME NEW code \in {"ok", "other"}, Greet(code) PROVE Position'
  BY <1>16 DEF Greet, Listening
<1>17. ASSUME NEW code \in {"ok", "other"}, Serve(code) PROVE Position'
  BY <1>17 DEF Serve, Listening
<1>18. ASSUME FallSilent PROVE Position'
  BY <1>18 DEF FallSilent
<1>19. ASSUME HangUp PROVE Position'
  BY <1>19 DEF HangUp
<1>20. ASSUME UNCHANGED vars PROVE Position'
  BY <1>20 DEF vars
<1> QED
  BY <1>1, <1>2, <1>3, <1>4, <1>5, <1>6, <1>7, <1>8, <1>9, <1>10, <1>11, <1>12,
     <1>13, <1>14, <1>15, <1>16, <1>17, <1>18, <1>19, <1>20
  DEF Next, ClientStep, ServerStep

(* A step keeps names, types and settings in their types.                  *)
LEMMA RecordsStep == IInv /\ [Next]_vars => Records'
<1> SUFFICES ASSUME IInv, [Next]_vars PROVE Records'
  OBVIOUS
<1> USE StepFacts DEF IInv, TypeOK, Records, Position, Wire, Dialogue, callerVars, session, wire, server, ghost
<1>1. ASSUME dialControl PROVE Records'
  BY <1>1 DEF dialControl
<1>2. ASSUME Open PROVE Records'
  BY <1>2 DEF Open
<1>3. ASSUME OpenFails PROVE Records'
  BY <1>3 DEF OpenFails
<1>4. ASSUME AuthTLS PROVE Records'
  BY <1>4 DEF AuthTLS, MayAuthTLS
<1>5. ASSUME NEW n \in Names, Login(n) PROVE Records'
  BY <1>5 DEF Login, MayLogin
<1>6. ASSUME Reject PROVE Records'
  BY <1>6 DEF Reject
<1>7. ASSUME Handshake PROVE Records'
  BY <1>7 DEF Handshake
<1>8. ASSUME HandshakeFails PROVE Records'
  BY <1>8 DEF HandshakeFails, closeLocked
<1>9. ASSUME Write PROVE Records'
  BY <1>9 DEF Write
<1>10. ASSUME RecvOK PROVE Records'
  BY <1>10 DEF RecvOK, Swap, Record
<1>11. ASSUME RecvOther PROVE Records'
  BY <1>11 DEF RecvOther
<1>12. ASSUME IOFail PROVE Records'
  BY <1>12 DEF IOFail, closeLocked
<1>13. ASSUME Poke PROVE Records'
  BY <1>13 DEF Poke
<1>14. ASSUME Close PROVE Records'
  BY <1>14 DEF Close, closeLocked
<1>15. ASSUME newChildConnection PROVE Records'
  BY <1>15 DEF newChildConnection
<1>16. ASSUME NEW code \in {"ok", "other"}, Greet(code) PROVE Records'
  BY <1>16 DEF Greet, Listening
<1>17. ASSUME NEW code \in {"ok", "other"}, Serve(code) PROVE Records'
  BY <1>17 DEF Serve, Listening
<1>18. ASSUME FallSilent PROVE Records'
  BY <1>18 DEF FallSilent
<1>19. ASSUME HangUp PROVE Records'
  BY <1>19 DEF HangUp
<1>20. ASSUME UNCHANGED vars PROVE Records'
  BY <1>20 DEF vars
<1> QED
  BY <1>1, <1>2, <1>3, <1>4, <1>5, <1>6, <1>7, <1>8, <1>9, <1>10, <1>11, <1>12,
     <1>13, <1>14, <1>15, <1>16, <1>17, <1>18, <1>19, <1>20
  DEF Next, ClientStep, ServerStep

(* A step keeps sockets and layers in their types.                         *)
LEMMA ConnectionStep == IInv /\ [Next]_vars => Connection'
<1> SUFFICES ASSUME IInv, [Next]_vars PROVE Connection'
  OBVIOUS
<1> USE DEF IInv, TypeOK, Connection, callerVars, session, wire, server, ghost
<1>1. ASSUME dialControl PROVE Connection'
  BY <1>1 DEF dialControl
<1>2. ASSUME Open PROVE Connection'
  BY <1>2 DEF Open
<1>3. ASSUME OpenFails PROVE Connection'
  BY <1>3 DEF OpenFails
<1>4. ASSUME AuthTLS PROVE Connection'
  BY <1>4 DEF AuthTLS, MayAuthTLS
<1>5. ASSUME NEW n \in Names, Login(n) PROVE Connection'
  BY <1>5 DEF Login, MayLogin
<1>6. ASSUME Reject PROVE Connection'
  BY <1>6 DEF Reject
<1>7. ASSUME Handshake PROVE Connection'
  BY <1>7 DEF Handshake
<1>8. ASSUME HandshakeFails PROVE Connection'
  BY <1>8 DEF HandshakeFails, closeLocked
<1>9. ASSUME Write PROVE Connection'
  BY <1>9 DEF Write
<1>10. ASSUME RecvOK PROVE Connection'
  BY <1>10 DEF RecvOK, Swap, Record
<1>11. ASSUME RecvOther PROVE Connection'
  BY <1>11 DEF RecvOther
<1>12. ASSUME IOFail PROVE Connection'
  BY <1>12 DEF IOFail, closeLocked
<1>13. ASSUME Poke PROVE Connection'
  BY <1>13 DEF Poke
<1>14. ASSUME Close PROVE Connection'
  BY <1>14 DEF Close, closeLocked
<1>15. ASSUME newChildConnection PROVE Connection'
  BY <1>15 DEF newChildConnection
<1>16. ASSUME NEW code \in {"ok", "other"}, Greet(code) PROVE Connection'
  BY <1>16 DEF Greet, Listening
<1>17. ASSUME NEW code \in {"ok", "other"}, Serve(code) PROVE Connection'
  BY <1>17 DEF Serve, Listening
<1>18. ASSUME FallSilent PROVE Connection'
  BY <1>18 DEF FallSilent
<1>19. ASSUME HangUp PROVE Connection'
  BY <1>19 DEF HangUp
<1>20. ASSUME UNCHANGED vars PROVE Connection'
  BY <1>20 DEF vars
<1> QED
  BY <1>1, <1>2, <1>3, <1>4, <1>5, <1>6, <1>7, <1>8, <1>9, <1>10, <1>11, <1>12,
     <1>13, <1>14, <1>15, <1>16, <1>17, <1>18, <1>19, <1>20
  DEF Next, ClientStep, ServerStep

(* The flags stay Boolean.                                                 *)
LEMMA FlagsStep == IInv /\ [Next]_vars => Flags'
<1> SUFFICES ASSUME IInv, [Next]_vars PROVE Flags'
  OBVIOUS
<1> USE DEF IInv, TypeOK, Flags, callerVars, session, wire, server, ghost
<1>1. ASSUME dialControl PROVE Flags'
  BY <1>1 DEF dialControl
<1>2. ASSUME Open PROVE Flags'
  BY <1>2 DEF Open
<1>3. ASSUME OpenFails PROVE Flags'
  BY <1>3 DEF OpenFails
<1>4. ASSUME AuthTLS PROVE Flags'
  BY <1>4 DEF AuthTLS, MayAuthTLS
<1>5. ASSUME NEW n \in Names, Login(n) PROVE Flags'
  BY <1>5 DEF Login, MayLogin
<1>6. ASSUME Reject PROVE Flags'
  BY <1>6 DEF Reject
<1>7. ASSUME Handshake PROVE Flags'
  BY <1>7 DEF Handshake
<1>8. ASSUME HandshakeFails PROVE Flags'
  BY <1>8 DEF HandshakeFails, closeLocked
<1>9. ASSUME Write PROVE Flags'
  BY <1>9 DEF Write
<1>10. ASSUME RecvOK PROVE Flags'
  BY <1>10 DEF RecvOK, Swap, Record
<1>11. ASSUME RecvOther PROVE Flags'
  BY <1>11 DEF RecvOther
<1>12. ASSUME IOFail PROVE Flags'
  BY <1>12 DEF IOFail, closeLocked
<1>13. ASSUME Poke PROVE Flags'
  BY <1>13 DEF Poke
<1>14. ASSUME Close PROVE Flags'
  BY <1>14 DEF Close, closeLocked
<1>15. ASSUME newChildConnection PROVE Flags'
  BY <1>15 DEF newChildConnection
<1>16. ASSUME NEW code \in {"ok", "other"}, Greet(code) PROVE Flags'
  BY <1>16 DEF Greet, Listening
<1>17. ASSUME NEW code \in {"ok", "other"}, Serve(code) PROVE Flags'
  BY <1>17 DEF Serve, Listening
<1>18. ASSUME FallSilent PROVE Flags'
  BY <1>18 DEF FallSilent
<1>19. ASSUME HangUp PROVE Flags'
  BY <1>19 DEF HangUp
<1>20. ASSUME UNCHANGED vars PROVE Flags'
  BY <1>20 DEF vars
<1> QED
  BY <1>1, <1>2, <1>3, <1>4, <1>5, <1>6, <1>7, <1>8, <1>9, <1>10, <1>11, <1>12,
     <1>13, <1>14, <1>15, <1>16, <1>17, <1>18, <1>19, <1>20
  DEF Next, ClientStep, ServerStep

(* Messages on the wire are well formed.                                   *)
LEMMA MessagesStep == IInv /\ [Next]_vars => Messages'
<1> SUFFICES ASSUME IInv, [Next]_vars PROVE Messages'
  OBVIOUS
<1> USE DEF IInv, TypeOK, Messages, Connection, NoMsg, callerVars, session, wire, server, ghost
<1>1. ASSUME dialControl PROVE Messages'
  BY <1>1 DEF dialControl
<1>2. ASSUME Open PROVE Messages'
  BY <1>2 DEF Open
<1>3. ASSUME OpenFails PROVE Messages'
  BY <1>3 DEF OpenFails
<1>4. ASSUME AuthTLS PROVE Messages'
  BY <1>4 DEF AuthTLS, MayAuthTLS
<1>5. ASSUME NEW n \in Names, Login(n) PROVE Messages'
  BY <1>5 DEF Login, MayLogin
<1>6. ASSUME Reject PROVE Messages'
  BY <1>6 DEF Reject
<1>7. ASSUME Handshake PROVE Messages'
  BY <1>7 DEF Handshake
<1>8. ASSUME HandshakeFails PROVE Messages'
  BY <1>8 DEF HandshakeFails, closeLocked
<1>9. ASSUME Write PROVE Messages'
  BY <1>9 DEF Write
<1>10. ASSUME RecvOK PROVE Messages'
  BY <1>10 DEF RecvOK, Swap, Record
<1>11. ASSUME RecvOther PROVE Messages'
  BY <1>11 DEF RecvOther
<1>12. ASSUME IOFail PROVE Messages'
  BY <1>12 DEF IOFail, closeLocked
<1>13. ASSUME Poke PROVE Messages'
  BY <1>13 DEF Poke
<1>14. ASSUME Close PROVE Messages'
  BY <1>14 DEF Close, closeLocked
<1>15. ASSUME newChildConnection PROVE Messages'
  BY <1>15 DEF newChildConnection
<1>16. ASSUME NEW code \in {"ok", "other"}, Greet(code) PROVE Messages'
  BY <1>16 DEF Greet, Listening
<1>17. ASSUME NEW code \in {"ok", "other"}, Serve(code) PROVE Messages'
  BY <1>17 DEF Serve, Listening
<1>18. ASSUME FallSilent PROVE Messages'
  BY <1>18 DEF FallSilent
<1>19. ASSUME HangUp PROVE Messages'
  BY <1>19 DEF HangUp
<1>20. ASSUME UNCHANGED vars PROVE Messages'
  BY <1>20 DEF vars
<1> QED
  BY <1>1, <1>2, <1>3, <1>4, <1>5, <1>6, <1>7, <1>8, <1>9, <1>10, <1>11, <1>12,
     <1>13, <1>14, <1>15, <1>16, <1>17, <1>18, <1>19, <1>20
  DEF Next, ClientStep, ServerStep

(* A command or a reply on the wire is that of the command in progress.    *)
LEMMA WireStep == IInv /\ [Next]_vars => Wire'
<1> SUFFICES ASSUME IInv, [Next]_vars PROVE Wire'
  OBVIOUS
<1> USE StepFacts, NoMsgFacts DEF IInv, Wire, Upgrade, callerVars, session, wire, server, ghost
<1>1. ASSUME dialControl PROVE Wire'
  BY <1>1 DEF dialControl
<1>2. ASSUME Open PROVE Wire'
  BY <1>2 DEF Open
<1>3. ASSUME OpenFails PROVE Wire'
  BY <1>3 DEF OpenFails
<1>4. ASSUME AuthTLS PROVE Wire'
  BY <1>4 DEF AuthTLS, MayAuthTLS
<1>5. ASSUME NEW n \in Names, Login(n) PROVE Wire'
  BY <1>5 DEF Login, MayLogin
<1>6. ASSUME Reject PROVE Wire'
  BY <1>6 DEF Reject
<1>7. ASSUME Handshake PROVE Wire'
  BY <1>7 DEF Handshake
<1>8. ASSUME HandshakeFails PROVE Wire'
  BY <1>8 DEF HandshakeFails, closeLocked
<1>9. ASSUME Write PROVE Wire'
  BY <1>9 DEF Write
<1>10. ASSUME RecvOK PROVE Wire'
  BY <1>10 DEF RecvOK, Swap, Record
<1>11. ASSUME RecvOther PROVE Wire'
  BY <1>11 DEF RecvOther
<1>12. ASSUME IOFail PROVE Wire'
  BY <1>12 DEF IOFail, closeLocked
<1>13. ASSUME Poke PROVE Wire'
  BY <1>13 DEF Poke
<1>14. ASSUME Close PROVE Wire'
  BY <1>14 DEF Close, closeLocked
<1>15. ASSUME newChildConnection PROVE Wire'
  BY <1>15 DEF newChildConnection
<1>16. ASSUME NEW code \in {"ok", "other"}, Greet(code) PROVE Wire'
  BY <1>16 DEF Greet, Listening
<1>17. ASSUME NEW code \in {"ok", "other"}, Serve(code) PROVE Wire'
  BY <1>17 DEF Serve, Listening
<1>18. ASSUME FallSilent PROVE Wire'
  BY <1>18 DEF FallSilent
<1>19. ASSUME HangUp PROVE Wire'
  BY <1>19 DEF HangUp
<1>20. ASSUME UNCHANGED vars PROVE Wire'
  BY <1>20 DEF vars
<1> QED
  BY <1>1, <1>2, <1>3, <1>4, <1>5, <1>6, <1>7, <1>8, <1>9, <1>10, <1>11, <1>12,
     <1>13, <1>14, <1>15, <1>16, <1>17, <1>18, <1>19, <1>20
  DEF Next, ClientStep, ServerStep

(* Client and server change their layer together, and protection stays.    *)
LEMMA UpgradeStep == IInv /\ [Next]_vars => Upgrade'
<1> SUFFICES ASSUME IInv, [Next]_vars PROVE Upgrade'
  OBVIOUS
<1> USE StepFacts, NoMsgFacts DEF IInv, TypeOK, Connection, Flags, Wire, Upgrade, Dialogue, callerVars, session, wire, server, ghost
<1>1. ASSUME dialControl PROVE Upgrade'
  BY <1>1 DEF dialControl
<1>2. ASSUME Open PROVE Upgrade'
  BY <1>2 DEF Open
<1>3. ASSUME OpenFails PROVE Upgrade'
  BY <1>3 DEF OpenFails
<1>4. ASSUME AuthTLS PROVE Upgrade'
  BY <1>4 DEF AuthTLS, MayAuthTLS
<1>5. ASSUME NEW n \in Names, Login(n) PROVE Upgrade'
  BY <1>5 DEF Login, MayLogin
<1>6. ASSUME Reject PROVE Upgrade'
  BY <1>6 DEF Reject
<1>7. ASSUME Handshake PROVE Upgrade'
  BY <1>7 DEF Handshake
<1>8. ASSUME HandshakeFails PROVE Upgrade'
  BY <1>8 DEF HandshakeFails, closeLocked
<1>9. ASSUME Write PROVE Upgrade'
  BY <1>9 DEF Write
<1>10. ASSUME RecvOK PROVE Upgrade'
  BY <1>10 DEF RecvOK, Swap, Record
<1>11. ASSUME RecvOther PROVE Upgrade'
  BY <1>11 DEF RecvOther
<1>12. ASSUME IOFail PROVE Upgrade'
  BY <1>12 DEF IOFail, closeLocked
<1>13. ASSUME Poke PROVE Upgrade'
  BY <1>13 DEF Poke
<1>14. ASSUME Close PROVE Upgrade'
  BY <1>14 DEF Close, closeLocked
<1>15. ASSUME newChildConnection PROVE Upgrade'
  BY <1>15 DEF newChildConnection
<1>16. ASSUME NEW code \in {"ok", "other"}, Greet(code) PROVE Upgrade'
  BY <1>16 DEF Greet, Listening
<1>17. ASSUME NEW code \in {"ok", "other"}, Serve(code) PROVE Upgrade'
  BY <1>17 DEF Serve, Listening
<1>18. ASSUME FallSilent PROVE Upgrade'
  BY <1>18 DEF FallSilent
<1>19. ASSUME HangUp PROVE Upgrade'
  BY <1>19 DEF HangUp
<1>20. ASSUME UNCHANGED vars PROVE Upgrade'
  BY <1>20 DEF vars
<1> QED
  BY <1>1, <1>2, <1>3, <1>4, <1>5, <1>6, <1>7, <1>8, <1>9, <1>10, <1>11, <1>12,
     <1>13, <1>14, <1>15, <1>16, <1>17, <1>18, <1>19, <1>20
  DEF Next, ClientStep, ServerStep

(* What the client records agrees with what the server has accepted.       *)
LEMMA DialogueStep == IInv /\ [Next]_vars => Dialogue'
<1> SUFFICES ASSUME IInv, [Next]_vars PROVE Dialogue'
  OBVIOUS
<1> USE StepFacts, NoMsgFacts, NamesAssumption DEF IInv, TypeOK, Position, Records, Wire, Upgrade, Dialogue, UserWasAccepted, AuthSteps, callerVars, session, wire, server, ghost
<1>1. ASSUME dialControl PROVE Dialogue'
  BY <1>1 DEF dialControl
<1>2. ASSUME Open PROVE Dialogue'
  BY <1>2 DEF Open
<1>3. ASSUME OpenFails PROVE Dialogue'
  BY <1>3 DEF OpenFails
<1>4. ASSUME AuthTLS PROVE Dialogue'
  BY <1>4 DEF AuthTLS, MayAuthTLS
<1>5. ASSUME NEW n \in Names, Login(n) PROVE Dialogue'
  BY <1>5 DEF Login, MayLogin
<1>6. ASSUME Reject PROVE Dialogue'
  BY <1>6 DEF Reject
<1>7. ASSUME Handshake PROVE Dialogue'
  BY <1>7 DEF Handshake
<1>8. ASSUME HandshakeFails PROVE Dialogue'
  BY <1>8 DEF HandshakeFails, closeLocked
<1>9. ASSUME Write PROVE Dialogue'
  BY <1>9 DEF Write
<1>10. ASSUME RecvOK PROVE Dialogue'
  <2> USE <1>10 DEF RecvOK, Record
  <2>1. pc \in Steps /\ pc' = NextStep[pc] /\ reply'.code # "ok" /\ ~isClosed
    BY DEF Swap
  <2>2. /\ pc' \in AuthSteps => call' = "AuthTLS"
        /\ pc' \in LoginSteps => call' = "Login" /\ arg' \in Names
        /\ pc' \in {"PBSZ", "PROT"} => secured'
    BY <2>1
  <2>3. /\ call' = "AuthTLS" /\ res' = "ok" => secured'
        /\ caller' = "cliTLS" /\ pc' \in LoginSteps => secured'
    BY <2>1
  <2>4. /\ pc' = "PASS" \/ (pc' = "USER" /\ reply'.code = "ok") => named' = arg'
        /\ pc' = "PASS" /\ reply'.code = "ok" => arg' \in accepted'
    BY <2>1
  <2>5. UserWasAccepted'
    BY <2>1
  <2>6. currType' = srvType'
    BY <2>1
  <2> QED
    BY <2>2, <2>3, <2>4, <2>5, <2>6 DEF Dialogue
<1>11. ASSUME RecvOther PROVE Dialogue'
  BY <1>11 DEF RecvOther
<1>12. ASSUME IOFail PROVE Dialogue'
  BY <1>12 DEF IOFail, closeLocked
<1>13. ASSUME Poke PROVE Dialogue'
  BY <1>13 DEF Poke
<1>14. ASSUME Close PROVE Dialogue'
  BY <1>14 DEF Close, closeLocked
<1>15. ASSUME newChildConnection PROVE Dialogue'
  BY <1>15 DEF newChildConnection
<1>16. ASSUME NEW code \in {"ok", "other"}, Greet(code) PROVE Dialogue'
  BY <1>16 DEF Greet, Listening
<1>17. ASSUME NEW code \in {"ok", "other"}, Serve(code) PROVE Dialogue'
  BY <1>17 DEF Serve, Listening
<1>18. ASSUME FallSilent PROVE Dialogue'
  BY <1>18 DEF FallSilent
<1>19. ASSUME HangUp PROVE Dialogue'
  BY <1>19 DEF HangUp
<1>20. ASSUME UNCHANGED vars PROVE Dialogue'
  BY <1>20 DEF vars
<1> QED
  BY <1>1, <1>2, <1>3, <1>4, <1>5, <1>6, <1>7, <1>8, <1>9, <1>10, <1>11, <1>12,
     <1>13, <1>14, <1>15, <1>16, <1>17, <1>18, <1>19, <1>20
  DEF Next, ClientStep, ServerStep

(* A failed caller's socket is closed, and is not opened again.            *)
LEMMA NoOrphanStep == IInv /\ [Next]_vars => NoOrphan'
<1> SUFFICES ASSUME IInv, [Next]_vars PROVE NoOrphan'
  OBVIOUS
<1> USE StepFacts DEF IInv, NoOrphan, callerVars, session, wire, server, ghost
<1>1. ASSUME dialControl PROVE NoOrphan'
  BY <1>1 DEF dialControl
<1>2. ASSUME Open PROVE NoOrphan'
  BY <1>2 DEF Open
<1>3. ASSUME OpenFails PROVE NoOrphan'
  BY <1>3 DEF OpenFails
<1>4. ASSUME AuthTLS PROVE NoOrphan'
  BY <1>4 DEF AuthTLS, MayAuthTLS
<1>5. ASSUME NEW n \in Names, Login(n) PROVE NoOrphan'
  BY <1>5 DEF Login, MayLogin
<1>6. ASSUME Reject PROVE NoOrphan'
  BY <1>6 DEF Reject
<1>7. ASSUME Handshake PROVE NoOrphan'
  BY <1>7 DEF Handshake
<1>8. ASSUME HandshakeFails PROVE NoOrphan'
  BY <1>8 DEF HandshakeFails, closeLocked
<1>9. ASSUME Write PROVE NoOrphan'
  BY <1>9 DEF Write
<1>10. ASSUME RecvOK PROVE NoOrphan'
  BY <1>10 DEF RecvOK, Swap, Record
<1>11. ASSUME RecvOther PROVE NoOrphan'
  BY <1>11 DEF RecvOther
<1>12. ASSUME IOFail PROVE NoOrphan'
  BY <1>12 DEF IOFail, closeLocked
<1>13. ASSUME Poke PROVE NoOrphan'
  BY <1>13 DEF Poke
<1>14. ASSUME Close PROVE NoOrphan'
  BY <1>14 DEF Close, closeLocked
<1>15. ASSUME newChildConnection PROVE NoOrphan'
  BY <1>15 DEF newChildConnection
<1>16. ASSUME NEW code \in {"ok", "other"}, Greet(code) PROVE NoOrphan'
  BY <1>16 DEF Greet, Listening
<1>17. ASSUME NEW code \in {"ok", "other"}, Serve(code) PROVE NoOrphan'
  BY <1>17 DEF Serve, Listening
<1>18. ASSUME FallSilent PROVE NoOrphan'
  BY <1>18 DEF FallSilent
<1>19. ASSUME HangUp PROVE NoOrphan'
  BY <1>19 DEF HangUp
<1>20. ASSUME UNCHANGED vars PROVE NoOrphan'
  BY <1>20 DEF vars
<1> QED
  BY <1>1, <1>2, <1>3, <1>4, <1>5, <1>6, <1>7, <1>8, <1>9, <1>10, <1>11, <1>12,
     <1>13, <1>14, <1>15, <1>16, <1>17, <1>18, <1>19, <1>20
  DEF Next, ClientStep, ServerStep

(* Every step preserves the inductive invariant. *)
LEMMA NextIInv == IInv /\ [Next]_vars => IInv'
BY PositionStep, RecordsStep, ConnectionStep, FlagsStep, MessagesStep, WireStep, UpgradeStep,
   DialogueStep, NoOrphanStep
DEF IInv, TypeOK

(* The inductive invariant of the setup holds in every reachable state:    *)
(* the wire, the layers of both ends and the two sides of the dialogue     *)
(* stay consistent whatever the server does and whenever Close is called.  *)
THEOREM SetupInvariant == Spec => []IInv
BY InitIInv, NextIInv, PTL DEF Spec

(* Across every switch to TLS, commands and replies are in the layer in    *)
(* which the other end reads them.                                         *)
THEOREM LayersMatch == Spec => []LayersAgree
<1>1. IInv => LayersAgree
  BY StepFacts DEF IInv, Upgrade, Wire, LayersAgree, NoMsg
<1> QED
  BY <1>1, SetupInvariant, PTL

(* After an accepted AUTH no command and no data connection is in clear.   *)
THEOREM NothingInClear == Spec => []NoClearAfterAuth
<1>1. IInv => NoClearAfterAuth
  BY StepFacts DEF IInv, Upgrade, Wire, NoClearAfterAuth, NoMsg
<1> QED
  BY <1>1, SetupInvariant, PTL

(* With --tls a name or a password is only ever sent inside TLS.           *)
THEOREM CredentialsInTLS == Spec => []CredentialsProtected
<1>1. IInv => CredentialsProtected
  BY StepFacts DEF IInv, TypeOK, Upgrade, Wire, Dialogue, CredentialsProtected, NoMsg
<1> QED
  BY <1>1, SetupInvariant, PTL

(* User() names somebody whose password the server accepted.               *)
THEOREM UserAccepted == Spec => []UserWasAccepted
<1>1. IInv => UserWasAccepted
  BY StepFacts DEF IInv, Dialogue
<1> QED
  BY <1>1, SetupInvariant, PTL

(* Between calls the recorded transfer type of an open session is the      *)
(* server's.                                                               *)
THEOREM TypeAgreed == Spec => []TypeAgrees
<1>1. IInv => TypeAgrees
  BY StepFacts DEF IInv, Wire, Dialogue, TypeAgrees, NoMsg
<1> QED
  BY <1>1, SetupInvariant, PTL

(* Type correctness.                                                       *)
THEOREM Types == Spec => []TypeOK
<1>1. IInv => TypeOK
  BY StepFacts DEF IInv
<1> QED
  BY <1>1, SetupInvariant, PTL

(* A caller that was refused a session holds no connection.                *)
THEOREM NoneOrphaned == Spec => []NoOrphan
<1>1. IInv => NoOrphan
  BY StepFacts DEF IInv
<1> QED
  BY <1>1, SetupInvariant, PTL
=============================================================================
