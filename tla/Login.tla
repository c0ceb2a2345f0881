-------------------------------- MODULE Login --------------------------------
(***************************************************************************)
(* handle_packet_login of mchandler.c: the tokens of a client's chain are  *)
(* looked at one after the other (verifly_jwt_chain), each with the key    *)
(* that the one before names, then the token of its own data, and the      *)
(* client is answered once.  A token is what the code reads of it; the     *)
(* input is chosen token by token.  A key is the text of a token; the code *)
(* compares two of them decoded and with strcmp, so that `Start` is all it *)
(* sees of a key.                                                          *)
(***************************************************************************)
EXTENDS Naturals, Sequences

CONSTANTS Tokens,      \* inputs
          Keys, MOJANG_ROOT_KEY, Identities,
          Start,       \* of a key: its bytes before the first 0, None if base64 refuses the text
          None,        \* a value that is no string, no key yet, no identity
          MaxChain     \* bound: the tokens of a chain

AllTokens ==
          [x5u : Keys \cup {None},                 \* the key it says it is signed with
           key_size : {"ok", "wrong"},             \* of x5u decoded: anything if that is refused
           signature : {"wrong size", "unverifiable", "bad", "good"},
           identityPublicKey : Keys \cup {None},   \* the key of the next
           in_time : BOOLEAN,                      \* exp and nbf, 60 seconds around now
           identity : Identities \cup {None}]      \* what extraData holds

KickMessages == {"invalid login", "invalid login payload", "invalid login signature",
                 "invalid login timestamp"}
Answers == KickMessages \cup {"You need to authenticate to Xbox Live.", "invalid skin payload", "play_success",
                              "crash"}  \* no answer: the process ended

ASSUME TokensAssumption == Tokens \subseteq AllTokens /\ MOJANG_ROOT_KEY \in Keys
\* Without a key no signature can be looked at.
ASSUME KeysAreDecoded ==
  \A t \in Tokens : t.x5u \in Keys /\ Start[t.x5u] = None => t.signature \in {"wrong size", "unverifiable"}
ASSUME RootKeyIsDecoded == Start[MOJANG_ROOT_KEY] # None
ASSUME NoneIsNothing == None \notin Keys /\ None \notin Identities /\ None \notin Answers
ASSUME MaxChainIsNat == MaxChain \in Nat

VARIABLES turn,                 \* i, the loop's counter
          current_public_key,
          kicktype, is_mojang,
          identity,             \* player->identity, "" until the chain is read
          answer,               \* what the client was sent
          read                  \* the tokens looked at so far

login == <<turn, current_public_key, kicktype, is_mojang, identity, answer, read>>

LoginInit ==
  /\ turn = 0
  /\ current_public_key = None
  /\ kicktype = None /\ is_mojang = FALSE
  /\ identity = None
  /\ answer = None
  /\ read = <<>>

\* Mutant: the key of the token before is not compared.
MutHasOtherKey(t, first) == current_public_key = None /\ first # 0

\* The first token needs no key, each other one a key that strcmp cannot tell from that of the
\* token before.
HasOtherKey(t, first) ==
  IF current_public_key = None THEN first # 0 ELSE Start[t.x5u] # Start[current_public_key]

If(condition, bit) == IF condition THEN {bit} ELSE {}

\* The bits of the result, by name: "done" is 1 << 9.  A signature that does not match sets a bit
\* and goes on.
verifly_jwt_chain(t, first) ==
  LET head == If(t.x5u = MOJANG_ROOT_KEY, "mojang") \cup If(t.key_size # "ok", "key size")
      last == head \cup If(t.signature # "good", "signature")
  IN CASE t.x5u = None -> {"no x5u"}
       [] t.x5u # None /\ HasOtherKey(t, first) -> head \cup {"key"}
       [] OTHER ->
          CASE t.signature = "wrong size" -> head \cup {"signature size"}
            [] t.signature = "unverifiable" -> head \cup {"error"}
            [] t.signature \in {"bad", "good"} /\ first = 4 -> last \cup {"done"}
            [] t.signature \in {"bad", "good"} /\ first # 4 ->
               IF t.identityPublicKey = None THEN last \cup {"no identityPublicKey"}
               ELSE IF ~t.in_time THEN last \cup {"time"}
               ELSE last \cup {"done"}

\* *current_public_key of the caller, after the call.
NextKey(t) ==
  IF t.identityPublicKey = None THEN None
  ELSE IF Start[t.identityPublicKey] = None THEN None ELSE t.identityPublicKey
KeyAfter(t, first) ==
  IF "done" \in verifly_jwt_chain(t, first) /\ first # 4 THEN NextKey(t) ELSE current_public_key

\* The decoder returned NULL, which is compared with a key.
ComparesNull(t) == t.x5u # None /\ current_public_key # None /\ Start[t.x5u] = None

\* kicktype 1, 2 and 3 leave the loop at once.
Payload == {"no x5u", "key size", "key", "signature size", "no identityPublicKey"}

KickOf(stat) ==
  CASE "done" \in stat -> None
    [] "done" \notin stat /\ stat \cap Payload # {} -> "invalid login payload"
    [] "done" \notin stat /\ stat \cap Payload = {} /\ "signature" \in stat -> "invalid login signature"
    [] "done" \notin stat /\ stat \cap Payload = {} /\ "signature" \notin stat /\ "time" \in stat -> "invalid login timestamp"
    [] OTHER -> "invalid login"

Leaves(kick) == kick \notin {None, "invalid login"}
------------------------------------------------------------------------------
InLoop == answer = None /\ ~Leaves(kicktype)

\* The third token of the chain holds who the player is; its payload was freed if the token
\* could not be verified.
ReadFrom(value) ==
  IF value = None THEN [kick |-> "invalid login payload", identity |-> identity]
                  ELSE [kick |-> None, identity |-> value]
ReadIdentity(t) ==
  IF turn # 2 THEN {[kick |-> None, identity |-> identity]}
  ELSE {ReadFrom(value) : value \in IF t.signature = "unverifiable" THEN Identities \cup {None} ELSE {t.identity}}

\* One turn of the loop.  A token that cannot be verified marks the login as failed and
\* the next one is looked at.
VerifyToken(t) ==
  /\ InLoop /\ turn < MaxChain /\ ~ComparesNull(t)
  /\ read' = Append(read, t)
  /\ \E taken \in ReadIdentity(t) :
     LET kick == KickOf(verifly_jwt_chain(t, turn))
     IN /\ current_public_key' = KeyAfter(t, turn)
        /\ IF Leaves(kick)
           THEN kicktype' = kick /\ UNCHANGED <<turn, is_mojang, identity>>
           ELSE /\ is_mojang' = (is_mojang \/ t.x5u = MOJANG_ROOT_KEY)
                /\ identity' = taken.identity
                /\ kicktype' = IF taken.kick # None THEN taken.kick
                               ELSE IF kick # None THEN kick ELSE kicktype
                /\ turn' = IF taken.kick # None THEN turn ELSE turn + 1
  /\ UNCHANGED answer

\* After the loop, which any turn may have been the last of: the client is kicked ...
Kick ==
  /\ answer = None
  /\ kicktype # None \/ ~is_mojang
  /\ answer' = IF kicktype # None THEN kicktype ELSE "You need to authenticate to Xbox Live."
  /\ UNCHANGED <<turn, current_public_key, kicktype, is_mojang, identity, read>>

ClientIndex == turn + 1

\* ... or its own token is verified, with the key of the last.
VerifyClientData(t) ==
  /\ InLoop /\ kicktype = None /\ is_mojang /\ ~ComparesNull(t)
  /\ turn' = ClientIndex
  /\ current_public_key' = KeyAfter(t, ClientIndex)
  /\ read' = Append(read, t)
  /\ answer' = IF "done" \in verifly_jwt_chain(t, ClientIndex) THEN "play_success"
                                                               ELSE "invalid skin payload"
  /\ UNCHANGED <<kicktype, is_mojang, identity>>

\* strcmp and d2i_PUBKEY are given NULL, or the freed payload of the third token is read.
Fault(t) ==
  /\ InLoop
  /\ \/ ComparesNull(t) /\ (turn < MaxChain \/ (kicktype = None /\ is_mojang))
     \/ /\ turn < MaxChain /\ "error" \in verifly_jwt_chain(t, turn)
        /\ (turn = 0 /\ Start[t.x5u] = None) \/ turn = 2
  /\ answer' = "crash"
  /\ UNCHANGED <<turn, current_public_key, kicktype, is_mojang, identity, read>>

LoginNext == Kick \/ \E t \in Tokens : VerifyToken(t) \/ VerifyClientData(t) \/ Fault(t)

LoginSpec == LoginInit /\ [][LoginNext]_login
------------------------------------------------------------------------------
\* Types; the loop never goes past the bound.
LoginTypeOK ==
  /\ turn \in 0 .. MaxChain + 1
  /\ current_public_key \in Keys \cup {None}
  /\ kicktype \in KickMessages \cup {None} /\ is_mojang \in BOOLEAN
  /\ identity \in Identities \cup {None}
  /\ answer \in Answers \cup {None}
  /\ read \in Seq(AllTokens)

Accepted == answer = "play_success"

\* t says it is signed with what the code takes for the key that `before` names.
Follows(t, before) ==
  /\ None \notin {t.x5u, before.identityPublicKey}
  /\ Start[t.x5u] # None /\ Start[t.x5u] = Start[before.identityPublicKey]

\* The token that names the key of the n-th: a fifth one of a chain is taken for the client's own
\* and its key is not.
Giver(n) == IF n = 6 THEN 4 ELSE n - 1

\* The tokens of which neither a next key nor a time is read: a fifth of a chain, the client's own
\* after a chain of three.
Excused(n) == IF n = Len(read) THEN n = 4 ELSE n = 5

\* An accepted login is one chain: each token has the key that another before it names, as far
\* as strcmp looks, one is Mojang's; none is late or without a signature that can be looked at.
\* Whether the signatures are good does not decide it.
ChainIsLinked ==
  Accepted =>
    /\ \A n \in 2 .. Len(read) : Follows(read[n], read[Giver(n)])
    /\ \A n \in 1 .. Len(read) : /\ read[n].signature \in {"good", "bad"}
                                 /\ Excused(n) \/ (read[n].identityPublicKey # None /\ read[n].in_time)
    /\ \E n \in 1 .. Len(read) - 1 : read[n].x5u = MOJANG_ROOT_KEY

\* The player is who the third token says, and nobody if there is no third.
IdentityIsThird ==
  Accepted => IF Len(read) > 3 THEN identity = read[3].identity /\ identity # None ELSE identity = None

\* The n-th token read has a key, and it is the one named by its giver, by way of tokens that
\* could all be verified.
Chained(n) ==
  n > 1 => Follows(read[n], read[Giver(n)]) /\ \A m \in 1 .. n - 1 : read[m].signature # "unverifiable"

\* What a message of a kick says of the tokens read.
Reason(message) ==
  LET n == Len(read)
      t == read[n]
  IN CASE message = "invalid login timestamp" ->
            t.signature = "good" /\ ~t.in_time /\ t.identityPublicKey # None
       [] message = "invalid login signature" ->
            t.signature = "bad" /\ ~t.in_time /\ t.identityPublicKey # None
       [] message = "invalid login payload" ->
            \/ None \in {t.x5u, t.identityPublicKey, t.identity}
            \/ t.key_size = "wrong" \/ t.signature = "wrong size"
            \/ n = 3 /\ t.signature = "unverifiable"
            \/ ~Chained(n)
       [] message = "invalid login" -> \E m \in 1 .. n : read[m].signature = "unverifiable"
       [] message = "You need to authenticate to Xbox Live." -> \A m \in 1 .. n : read[m].x5u # MOJANG_ROOT_KEY
       [] message = "invalid skin payload" ->
            \/ t.x5u = None \/ t.signature \in {"wrong size", "unverifiable"}
            \/ ~Chained(n)
            \/ ~Excused(n) /\ (t.identityPublicKey = None \/ ~t.in_time)
       [] OTHER -> TRUE

\* Who is refused is told why: of what ends the loop, the last token read; a client that does
\* nothing wrong is let in.
ToldWhatStopped == answer # None => Reason(answer)

\* A login is accepted only with a chain whose keys follow each other as far as strcmp sees and that
\* names Mojang's, in time, for the identity of its third token; who is refused is told what stopped
\* it, and nobody is refused without a reason in the tokens (mchandler.c:26, 304).  It does not say
\* that the signatures are good: verifly_jwt_chain sets 1 << 9 for a token with a bad one.
LoginFollowsChain == LoginTypeOK /\ ChainIsLinked /\ IdentityIsThird /\ ToldWhatStopped
===============================================================================
