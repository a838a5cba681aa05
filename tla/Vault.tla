-------------------------------- MODULE Vault --------------------------------
(***************************************************************************)
(* The encrypted store of secrets, core/tools/credential_store.py, and     *)
(* what the operator keeps there: sign-ins and mailbox tokens, and the     *)
(* settings of each LLM provider beside the record that names the active   *)
(* one (core/tools/llm_provider.py). The tools set_llm_provider,           *)
(* set_credentials and forget_credentials of interfaces/mcp_tools.py run   *)
(* on threads, consent workers in processes of their own; each change      *)
(* loads the store and writes it back whole.                               *)
(*                                                                         *)
(* Of a record the model keeps its secret, the key or password. Typed      *)
(* secrets are numbered; 0 is a record without one.                        *)
(***************************************************************************)
EXTENDS Integers, Sequences

CONSTANTS
    SignIns,    \* sources and inboxes
    Writers,    \* threads and workers
    MaxTyped,   \* bound on the secrets
    MaxChanges  \* bound on the calls

Providers == {"anthropic", "openai_compatible", "claude_code"}
Records == Providers \cup SignIns

ASSUME VaultAssumption ==
    /\ MaxTyped \in Nat \ {0} /\ MaxChanges \in Nat
    /\ SignIns \cap (Providers \cup {"pointer"}) = {}

Absent == -1
Nobody == "nobody"
Secrets == 0..MaxTyped

VARIABLES
    vault,     \* the store: records, the pointer, and what it used to hold
    cut,       \* the store is truncated, and not written yet
    environ,   \* the keys in the environment
    writer,    \* the call each thread is in
    typed,     \* observer: the secret last given for each record
    given,     \* how many secrets the operator has typed
    changes,   \* how many calls there were
    undisturbed     \* observer: no two calls met, and none was cut short in writing

vaultVars == <<vault, cut, environ, writer, typed, given, changes, undisturbed>>

Vaults == [secret : [Records -> Secrets \cup {Absent}],
           active : Providers \cup {Nobody}, legacy : Secrets]

(* One set() or delete(): a record, or the pointer. *)
Sets == [of : Records, secret : Secrets \cup {Absent}]
          \cup [of : {"pointer"}, active : Providers]

Writing == [pc : {"reuse", "migrate", "load", "dump", "write", "point", "env"},
            of : Records, fresh : Secrets, secret : Secrets \cup {Absent},
            activate : BOOLEAN, pointed : BOOLEAN, todo : Seq(Sets), doc : Vaults]
Away == [pc |-> "away"]
NoVault == [secret |-> [r \in Records |-> Absent], active |-> Nobody, legacy |-> 0]

VaultTypeOK ==
    /\ vault \in Vaults /\ cut \in BOOLEAN /\ undisturbed \in BOOLEAN
    /\ environ \in [Providers -> Secrets]
    /\ writer \in [Writers -> Writing \cup {Away}]
    /\ typed \in [Records -> Secrets]
    /\ given \in Secrets /\ changes \in 0..MaxChanges

(* An empty store, or one of the old shape: the pointer held the key. *)
VaultInit ==
    /\ \E p \in Providers \cup {Nobody} :
         LET n == IF p = Nobody THEN 0 ELSE 1
         IN  /\ vault = [NoVault EXCEPT !.active = p, !.legacy = n]
             /\ typed = [r \in Records |-> IF r = p THEN n ELSE 0]
             /\ given = n
    /\ cut = FALSE /\ undisturbed = TRUE /\ changes = 0
    /\ environ = [q \in Providers |-> 0]
    /\ writer = [t \in Writers |-> Away]

-----------------------------------------------------------------------------
(* settings_for: a provider's own record, or the old pointer's if it was its.*)
KeyIn(v, r) ==
    IF v.secret[r] # Absent THEN v.secret[r]
    ELSE IF r \in Providers /\ v.active = r THEN v.legacy ELSE 0

(* A store that cannot be read holds nothing, for those who only look.       *)
StoredKey(r) == IF cut THEN 0 ELSE KeyIn(vault, r)
ActiveProvider == IF cut THEN Nobody ELSE vault.active

(* resolve: of the CLI's agent the environment's key is not used. *)
Resolved(p) ==
    IF StoredKey(p) # 0 \/ p = "claude_code" THEN StoredKey(p) ELSE environ[p]

Applied(v, s) ==
    IF s.of = "pointer" THEN [v EXCEPT !.active = s.active, !.legacy = 0]
    ELSE [v EXCEPT !.secret[s.of] = s.secret]

Steps(t, c) == writer' = [writer EXCEPT ![t] = c]
Quiet == UNCHANGED <<vault, cut, environ, typed, given, changes, undisturbed>>

-----------------------------------------------------------------------------
(* The tools begin. A blank field is 0; with a sign-in goes a username.      *)
Asks(t, r, pc, fresh, activate) ==
    /\ writer[t] = Away /\ changes < MaxChanges
    /\ changes' = changes + 1
    /\ Steps(t, [pc |-> pc, of |-> r, fresh |-> fresh, secret |-> fresh,
                  activate |-> activate, pointed |-> FALSE, todo |-> <<>>,
                  doc |-> NoVault])
    /\ undisturbed' = (undisturbed /\ \A u \in Writers : writer[u] = Away)
    /\ UNCHANGED <<vault, cut, environ, typed>>

(* set_llm_provider, set_credentials, and the consent worker with its token. *)
SetSecret(t, r, activate) ==
    /\ r \in SignIns => activate
    /\ \/ Asks(t, r, "reuse", 0, activate) /\ UNCHANGED given
       \/ /\ given < MaxTyped /\ given' = given + 1
          /\ Asks(t, r, "reuse", given + 1, activate)

(* forget_credentials. *)
ForgetSecret(t, r) ==
    /\ r \in SignIns /\ ~cut /\ vault.secret[r] # Absent
    /\ Asks(t, r, "load", 0, TRUE) /\ UNCHANGED given

(* Mutant: the key of whichever provider is active is reused. *)
ReuseActive(t) ==
    LET c == writer[t]
        old == IF ActiveProvider = Nobody THEN 0 ELSE StoredKey(ActiveProvider)
        s == IF c.fresh # 0 THEN c.fresh ELSE old
    IN  /\ c.pc = "reuse"
        /\ Steps(t, IF s = 0 /\ c.of \notin {"openai_compatible", "claude_code"}
                     THEN Away ELSE [c EXCEPT !.pc = "migrate", !.secret = s])
        /\ Quiet

(* A blank field keeps the stored secret; a sign-in and Anthropic need one.  *)
Reuse(t) ==
    LET c == writer[t]
        s == IF c.fresh # 0 THEN c.fresh ELSE StoredKey(c.of)
    IN  /\ c.pc = "reuse"
        /\ Steps(t, IF s = 0 /\ c.of \notin {"openai_compatible", "claude_code"}
                     THEN Away ELSE [c EXCEPT !.pc = "migrate", !.secret = s])
        /\ Quiet

(* _migrate_pointer: what the pointer holds goes to the provider it was of.  *)
Lifted ==
    IF cut \/ vault.active = Nobody \/ vault.legacy = 0 THEN <<>>
    ELSE (IF vault.secret[vault.active] # Absent THEN <<>>
          ELSE <<[of |-> vault.active, secret |-> vault.legacy]>>)
           \o <<[of |-> "pointer", active |-> vault.active]>>

(* store_llm_credential; for a sign-in there is but the one set().           *)
Migrate(t) ==
    LET c == writer[t]
    IN  /\ c.pc = "migrate"
        /\ Steps(t, [c EXCEPT !.pc = "load",
                       !.todo = (IF c.of \in Providers THEN Lifted ELSE <<>>)
                                  \o <<[of |-> c.of, secret |-> c.secret]>>])
        /\ Quiet

(* set() and delete(): a store that cannot be read raises, and ends the call.*)
LoadVault(t) ==
    LET c == writer[t]
        todo == IF c.todo = <<>> THEN <<[of |-> c.of, secret |-> Absent]>>
                ELSE c.todo
    IN  /\ c.pc = "load"
        /\ Steps(t, IF cut THEN Away
                     ELSE [c EXCEPT !.pc = "dump", !.todo = todo,
                                    !.doc = Applied(vault, Head(todo))])
        /\ Quiet

TruncateVault(t) ==
    /\ writer[t].pc = "dump" /\ cut' = TRUE
    /\ Steps(t, [writer[t] EXCEPT !.pc = "write"])
    /\ UNCHANGED <<vault, environ, typed, given, changes, undisturbed>>

WriteVault(t) ==
    LET c == writer[t]
        s == Head(c.todo)
        left == Tail(c.todo)
        next == [c EXCEPT !.doc = NoVault, !.todo = left]
    IN  /\ c.pc = "write"
        /\ vault' = c.doc /\ cut' = FALSE
        /\ typed' = IF s.of # c.of \/ (c.fresh # 0 /\ s.secret # c.fresh) THEN typed
                    ELSE [typed EXCEPT ![c.of] =
                            IF s.secret = Absent THEN 0
                            ELSE IF c.fresh # 0 THEN c.fresh ELSE @]
        /\ Steps(t, IF left # <<>> THEN [next EXCEPT !.pc = "load"]
                     ELSE IF c.of \in SignIns THEN Away
                     ELSE [next EXCEPT !.pc = IF c.pointed THEN "env" ELSE "point"])
        /\ UNCHANGED <<environ, given, changes, undisturbed>>

(* The first provider that is saved becomes the active one regardless.       *)
Point(t) ==
    LET c == writer[t]
    IN  /\ c.pc = "point"
        /\ Steps(t, IF c.activate \/ ActiveProvider = Nobody
                     THEN [c EXCEPT !.pc = "load", !.pointed = TRUE,
                             !.todo = <<[of |-> "pointer", active |-> c.of]>>]
                     ELSE [c EXCEPT !.pc = "env"])
        /\ Quiet

(* load_into_env, of the active provider only. *)
LoadIntoEnv(t) ==
    LET p == ActiveProvider
    IN  /\ writer[t].pc = "env"
        /\ environ' = IF p \in {"openai_compatible", "anthropic"}
                           /\ (p = "anthropic" => StoredKey(p) # 0)
                      THEN [environ EXCEPT ![p] = StoredKey(p)] ELSE environ
        /\ Steps(t, Away)
        /\ UNCHANGED <<vault, cut, typed, given, changes, undisturbed>>

(* The app goes down and comes back, with what the store holds.              *)
AppRestarts ==
    /\ writer' = [t \in Writers |-> Away]
    /\ environ' = [p \in Providers |-> 0]
    /\ undisturbed' = (undisturbed /\ ~cut)
    /\ UNCHANGED <<vault, cut, typed, given, changes>>

VaultNext ==
    \/ \E t \in Writers :
         \/ \E r \in Records, activate \in BOOLEAN : SetSecret(t, r, activate)
         \/ \E r \in SignIns : ForgetSecret(t, r)
         \/ Reuse(t) \/ Migrate(t) \/ LoadVault(t) \/ TruncateVault(t)
         \/ WriteVault(t) \/ Point(t) \/ LoadIntoEnv(t)
    \/ AppRestarts

VaultSpec == VaultInit /\ [][VaultNext]_vaultVars

-----------------------------------------------------------------------------
(* "Switching provider can never carry the other one's ... key across", and  *)
(* loses none: what is used for a provider or a sign-in is what was last     *)
(* given for it, whichever is active, left blank, migrated from the old      *)
(* shape, or cut short between two of its writes. Calls that overlap, and a  *)
(* crash while the store is truncated, may lose it.                          *)
SecretsAreTheirOwn ==
    undisturbed /\ ~cut =>
        /\ \A p \in Providers : Resolved(p) = typed[p]
        /\ \A r \in SignIns : KeyIn(vault, r) = typed[r]
=============================================================================
