----------------------------- MODULE Secrets ------------------------------
(***************************************************************************)
(* One stored credential of one user (the OpenAI key; the GitHub token is  *)
(* alike): user.service.ts over secret-crypto.ts.  The column holds a      *)
(* ciphertext, and its last four characters are kept beside it.  Reading   *)
(* a ciphertext of an older format writes it again, bound to its owner.    *)
(* Encryption is randomised: two ciphertexts are equal only when they are  *)
(* the same one, so a ciphertext carries a number of its own.              *)
(***************************************************************************)
EXTENDS Naturals

CONSTANTS
    Values,         \* plaintexts, told apart by their last four characters
    Readers,        \* requests that use or change the credential
    NoSecret,
    MaxWrites       \* bound: ciphertexts ever made

VARIABLES
    stored,     \* the encrypted column
    lastFour,   \* the column beside it
    readers,    \* the requests
    made        \* ciphertexts made so far

secretVars == <<stored, lastFour, readers, made>>

(* What is stored is told from nothing. *)
Ciphertexts == [plain : Values, bound : BOOLEAN, number : Nat]
ASSUME SecretsAssumption == NoSecret \notin Ciphertexts

AtRest == [pc |-> "idle", cipher |-> NoSecret]

Cipher(plain, bound) == [plain |-> plain, bound |-> bound, number |-> made + 1]

Finishes(r) == readers' = [readers EXCEPT ![r] = AtRest]

(* PATCH of the user: one update writes both columns. *)
UpdateUser(v) ==
    /\ made < MaxWrites
    /\ stored' = Cipher(v, TRUE) /\ made' = made + 1
    /\ lastFour' = v
    /\ UNCHANGED readers

RemoveSecret ==
    /\ stored' = NoSecret /\ lastFour' = NoSecret
    /\ UNCHANGED <<readers, made>>

(* getOpenaiKey: find the row and decrypt, which fails on a retired key.   *)
GetKey(r) ==
    /\ readers[r].pc = "idle" /\ stored # NoSecret
    /\ readers' = [readers EXCEPT ![r] =
          IF stored.bound THEN AtRest ELSE [pc |-> "rebind", cipher |-> stored]]
    /\ UNCHANGED <<stored, lastFour, made>>

\* Mutant: the update filters by the id of the user only.
StillStoredById(cipher) == stored # NoSecret

StillStored(cipher) == stored = cipher

(* rebindSecret: only over the ciphertext that was read; errors are logged. *)
RebindSecret(r) ==
    /\ readers[r].pc = "rebind" /\ made < MaxWrites
    /\ IF StillStored(readers[r].cipher)
       THEN stored' = Cipher(readers[r].cipher.plain, TRUE) /\ made' = made + 1
       ELSE UNCHANGED <<stored, made>>
    /\ Finishes(r)
    /\ UNCHANGED lastFour

RebindFails(r) ==
    /\ readers[r].pc = "rebind"
    /\ Finishes(r)
    /\ UNCHANGED <<stored, lastFour, made>>

(* A row may hold a ciphertext of before secrets were bound to owners. *)
SecretsInit ==
    /\ \/ stored = NoSecret /\ lastFour = NoSecret
       \/ \E v \in Values : /\ stored = [plain |-> v, bound |-> FALSE, number |-> 0]
                            /\ lastFour = v
    /\ readers = [r \in Readers |-> AtRest]
    /\ made = 0

SecretsNext ==
    \/ \E v \in Values : UpdateUser(v)
    \/ RemoveSecret
    \/ \E r \in Readers : GetKey(r) \/ RebindSecret(r) \/ RebindFails(r)

SecretsSpec == SecretsInit /\ [][SecretsNext]_secretVars

(* What the settings page shows is the key that will be used: rewriting a  *)
(* ciphertext in the new format never brings back a key that was replaced  *)
(* or removed meanwhile.                                                   *)
LastFourTellsKey ==
    lastFour = IF stored = NoSecret THEN NoSecret ELSE stored.plain
=============================================================================
