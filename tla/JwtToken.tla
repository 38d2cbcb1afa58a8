------------------------------ MODULE JwtToken ------------------------------
(***************************************************************************)
(* The token of a login: AccountService.cpp signs it, JwtAuthProvider.cpp  *)
(* verifies it, Helper.cpp has the conversions.                            *)
(*                                                                         *)
(* Texts are sequences of bytes, encoded texts sequences of sextets.  Of   *)
(* the payload {"sub":"<account>","exp":<n>} the account and the expiry,   *)
(* as one byte, are kept.  signJwt escapes nothing: what json::parse makes *)
(* of an account with characters that have a meaning in JSON is left open. *)
(* A token has the three parts that verify splits it into; its header is   *)
(* fixed.                                                                  *)
(***************************************************************************)
EXTENDS Integers, Sequences, SequencesExt

CONSTANTS
    Accounts,        \* names asked for: texts in UTF-8, which protobuf checks
    MaxAccountLen    \* kMaxAccountLen

NoSecret == 0
NoAccount == <<>>

\* A byte or sextet of the input, or the zero that stands for one past its end.
ByteAt(s, i) == IF i <= Len(s) THEN s[i] ELSE 0

\* base64url: three bytes make four sextets; those after the end are the
\* padding, which is taken off.
base64UrlEncode(s) ==
    [k \in 1..((4 * Len(s) + 2) \div 3) |->
        LET i == 3 * ((k - 1) \div 4)
            a == ByteAt(s, i + 1)  b == ByteAt(s, i + 2)  c == ByteAt(s, i + 3)
        IN <<a \div 4, (a % 4) * 16 + b \div 16, (b % 16) * 4 + c \div 64, c % 64>>
              [1 + ((k - 1) % 4)]]

\* The padding is put back; a group gives as many bytes as it has sextets
\* after the first, and a lone sextet ends the decoding.
base64Decode(t) ==
    [n \in 1..((3 * Len(t)) \div 4) |->
        LET i == 4 * ((n - 1) \div 3)
            a == ByteAt(t, i + 1)  b == ByteAt(t, i + 2)
            c == ByteAt(t, i + 3)  d == ByteAt(t, i + 4)
        IN <<a * 4 + b \div 16, (b % 16) * 16 + c \div 4, (c % 4) * 64 + d>>
              [1 + ((n - 1) % 3)]]

\* OpenSSL's: no two inputs have one digest.
hmacSha256(key, p) == <<key>> \o p

signJwt(key, account, exp) ==
    LET p == base64UrlEncode(Append(account, exp))
    IN [p |-> p, sig |-> base64UrlEncode(hmacSha256(key, p))]

\* No quote, backslash or control character.
PlainText(account) == \A k \in DOMAIN account : account[k] \notin (0 .. 31) \cup {34, 92}

\* What json::parse may make of a payload: of one with other characters an error, or an
\* object for whatever account.
parsePayload(s) ==
    IF PlainText(Front(s)) THEN {[sub |-> Front(s), exp |-> Last(s)]}
    ELSE [sub : Accounts \cup {NoAccount}, exp : {255}]

\* verify: the account a token may be found good for, or none.
verify(key, token, now) ==
    {IF /\ key # NoSecret
        /\ base64Decode(token.sig) = hmacSha256(key, token.p)
        /\ now <= r.exp
     THEN r.sub ELSE NoAccount : r \in parsePayload(base64Decode(token.p))}

\* onApplyToken: empty and long names are refused.
onApplyToken(key, account, exp) ==
    IF Len(account) \in 1..MaxAccountLen THEN {signJwt(key, account, exp)} ELSE {}
=============================================================================
