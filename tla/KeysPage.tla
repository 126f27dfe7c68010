------------------------------- MODULE KeysPage -------------------------------
(***************************************************************************)
(* The API keys in one tab (frontend/src/pages/KeysPage.tsx, ApiKeysTab)   *)
(* and their handlers (internal/server/handlers_keys.go).  Head-Control    *)
(* itself works with one of the keys: ending that one takes a second       *)
(* dialog, in which its prefix must be typed.                              *)
(*                                                                         *)
(* A key is its prefix, which is free again once the key was deleted.      *)
(* Expiring and deleting are two mutations of the page, with one request   *)
(* each under way; their answers may find another dialog open than the one *)
(* that sent them.                                                         *)
(***************************************************************************)
EXTENDS Naturals

CONSTANTS
  KpKeys,      \* prefixes of API keys
  KpText,      \* a text that is no prefix
  KpFaults,    \* requests may fail
  KpMaxCalls,  \* bound: expirations and deletions asked for
  KpMaxOutside \* bound: new keys by others and restarts with another key

KpOps == {"expire", "delete"}

VARIABLES
  kpWorking,  \* headscale: the keys it accepts
  kpExpired,  \* headscale: the keys it lists and no longer accepts
  kpOwn,      \* the key Head-Control works with
  kpListed,   \* the keys the page polled last
  kpDialog,   \* the open dialog, if any
  kpCalls,    \* per mutation its request, if one is under way
  kpCreating, \* the open dialog has asked for a new key
  kpUsed      \* bounds

kpVars == <<kpWorking, kpExpired, kpOwn, kpListed, kpDialog, kpCalls, kpCreating, kpUsed>>

KpKnown == kpWorking \cup kpExpired

KpUse(what, max) == kpUsed[what] < max /\ kpUsed' = [kpUsed EXCEPT ![what] = @ + 1]

KpNew(kind, key) == <<[kind |-> kind, op |-> key[1], key |-> key[2], typed |-> KpText]>>

\* A dialog that is replaced by one of its own kind keeps what was typed.
KpLockout(op, key) ==
  IF kpDialog # <<>> /\ kpDialog[1].kind = "lockout" /\ kpDialog[1].op = op
  THEN <<[kpDialog[1] EXCEPT !.key = key]>>
  ELSE KpNew("lockout", <<op, key>>)

\* Mutant of KpUnblocked: any prefix will do.
KpUnblockedByPrefix(d) == d.kind = "lockout" => d.typed # KpText
KpUnblocked(d) == d.kind = "lockout" => d.typed = d.key

-----------------------------------------------------------------------------
KpInit ==
  /\ kpOwn \in KpKeys /\ kpWorking = {kpOwn} /\ kpExpired = {}
  /\ kpListed = {kpOwn}
  /\ kpDialog = <<>> /\ kpCalls = [op \in KpOps |-> <<>>] /\ kpCreating = FALSE
  /\ kpUsed = [calls |-> 0, outside |-> 0]

KpPoll ==
  /\ kpOwn \in kpWorking /\ kpListed' = KpKnown
  /\ UNCHANGED <<kpWorking, kpExpired, kpOwn, kpDialog, kpCalls, kpCreating, kpUsed>>

KpOpen ==
  /\ kpDialog = <<>>
  /\ \/ kpDialog' = KpNew("create", <<"create", KpText>>)
     \/ \E op \in KpOps, key \in kpListed : kpDialog' = KpNew("confirm", <<op, key>>)
  /\ UNCHANGED <<kpWorking, kpExpired, kpOwn, kpListed, kpCalls, kpCreating, kpUsed>>

\* Cancel or Escape; the dialog with the secret has neither.  A dialog that is
\* gone does not hear of the key it asked for.
KpCancel ==
  /\ kpDialog # <<>> /\ kpDialog[1].kind # "secret"
  /\ kpDialog' = <<>> /\ kpCreating' = FALSE
  /\ UNCHANGED <<kpWorking, kpExpired, kpOwn, kpListed, kpCalls, kpUsed>>

\* "Done" takes a tick at "I've stored this secret".
KpDone ==
  /\ kpDialog # <<>> /\ kpDialog[1].kind = "secret" /\ kpDialog' = <<>>
  /\ UNCHANGED <<kpWorking, kpExpired, kpOwn, kpListed, kpCalls, kpCreating, kpUsed>>

KpType ==
  /\ kpDialog # <<>> /\ kpDialog[1].kind = "lockout"
  /\ \E text \in KpKeys : kpDialog' = <<[kpDialog[1] EXCEPT !.typed = text]>>
  /\ UNCHANGED <<kpWorking, kpExpired, kpOwn, kpListed, kpCalls, kpCreating, kpUsed>>

\* doExpire, doDelete.
KpConfirm ==
  /\ kpDialog # <<>> /\ kpDialog[1].kind \in {"confirm", "lockout"}
  /\ LET d == kpDialog[1]
     IN  /\ kpCalls[d.op] = <<>> /\ KpUnblocked(d)
         /\ kpCalls' = [kpCalls EXCEPT ![d.op] =
              <<[key |-> d.key, confirm |-> d.kind = "lockout", typed |-> d.typed, answer |-> "none"]>>]
  /\ KpUse("calls", KpMaxCalls)
  /\ UNCHANGED <<kpWorking, kpExpired, kpOwn, kpListed, kpDialog, kpCreating>>

KpAskNew ==
  /\ kpDialog # <<>> /\ kpDialog[1].kind = "create" /\ ~kpCreating /\ kpCreating' = TRUE
  /\ UNCHANGED <<kpWorking, kpExpired, kpOwn, kpListed, kpDialog, kpCalls, kpUsed>>

\* handleCreateAPIKey; CreateApiKeyModal shows the secret that the answer brings.
KpCreated ==
  /\ kpCreating /\ kpCreating' = FALSE
  /\ \/ /\ kpOwn \in kpWorking
        /\ \E key \in KpKeys \ KpKnown : kpWorking' = kpWorking \cup {key}
        /\ kpDialog' = KpNew("secret", <<"create", KpText>>)
     \/ (KpFaults \/ kpOwn \notin kpWorking) /\ UNCHANGED <<kpWorking, kpDialog>>
  /\ UNCHANGED <<kpExpired, kpOwn, kpListed, kpCalls, kpUsed>>

\* handleExpireAPIKey, handleDeleteAPIKey, asked by prefix as the page does:
\* headscale does as it is told, or refuses, or the answer is lost; without its
\* key Head-Control cannot ask.
KpServe(op) ==
  /\ kpCalls[op] # <<>> /\ kpCalls[op][1].answer = "none"
  /\ LET c == kpCalls[op][1]
         Answer(a) == kpCalls' = [kpCalls EXCEPT ![op][1].answer = a]
     IN  IF c.key = kpOwn /\ ~c.confirm THEN Answer("self_lockout") /\ UNCHANGED <<kpWorking, kpExpired>>
         ELSE \/ /\ kpOwn \in kpWorking /\ c.key \in KpKnown
                 /\ kpWorking' = kpWorking \ {c.key}
                 /\ kpExpired' = IF op = "delete" THEN kpExpired \ {c.key} ELSE kpExpired \cup {c.key}
                 /\ Answer("ok") \/ (KpFaults /\ Answer("error"))
              \/ /\ KpFaults \/ kpOwn \notin kpWorking \/ c.key \notin KpKnown
                 /\ Answer("error") /\ UNCHANGED <<kpWorking, kpExpired>>
  /\ UNCHANGED <<kpOwn, kpListed, kpDialog, kpCreating, kpUsed>>

\* The answer sets the dialog, whichever is open.
KpAnswered(op) ==
  /\ kpCalls[op] # <<>> /\ kpCalls[op][1].answer # "none"
  /\ kpCalls' = [kpCalls EXCEPT ![op] = <<>>]
  /\ LET c == kpCalls[op][1]
     IN  /\ kpDialog' = CASE c.answer = "ok" -> <<>>
                          [] c.answer = "self_lockout" -> KpLockout(op, c.key)
                          [] c.answer = "error" -> kpDialog
         /\ kpCreating' = (kpCreating /\ kpDialog' = kpDialog)
  /\ UNCHANGED <<kpWorking, kpExpired, kpOwn, kpListed, kpUsed>>

\* Another administrator makes a key, with which Head-Control may be restarted.
KpOutside ==
  /\ KpUse("outside", KpMaxOutside)
  /\ \/ \E key \in KpKeys \ KpKnown :
          kpWorking' = kpWorking \cup {key} /\ UNCHANGED <<kpOwn, kpCalls, kpCreating>>
     \/ /\ \E key \in kpWorking \ {kpOwn} : kpOwn' = key
        /\ kpCalls' = [op \in KpOps |-> IF kpCalls[op] # <<>> /\ kpCalls[op][1].answer = "none"
                                       THEN <<[kpCalls[op][1] EXCEPT !.answer = "error"]>> ELSE kpCalls[op]]
        /\ kpCreating' = FALSE /\ UNCHANGED kpWorking
  /\ UNCHANGED <<kpExpired, kpListed, kpDialog>>

KpNext ==
  \/ KpPoll \/ KpOpen \/ KpCancel \/ KpDone \/ KpType \/ KpConfirm \/ KpAskNew \/ KpCreated
  \/ (\E op \in KpOps : KpServe(op) \/ KpAnswered(op)) \/ KpOutside

KpSpec == KpInit /\ [][KpNext]_kpVars

-----------------------------------------------------------------------------
\* "Self-lockout guard when rotating the UI's own key" (README.md): a request
\* ends the key Head-Control works with only if the user typed the prefix of
\* that very key, although answers open and close dialogs over others, lists
\* are stale, and a key may become Head-Control's own while a dialog is open.
LockoutIsConfirmed ==
  [][\A op \in KpOps :
       kpCalls[op] # <<>> /\ kpCalls'[op] # kpCalls[op] /\ kpOwn \in kpWorking \ kpWorking'
         => kpCalls[op][1].key = kpOwn /\ kpCalls[op][1].typed = kpOwn]_kpVars
=============================================================================
