------------------------------ MODULE BankPull ------------------------------
(***************************************************************************)
(* Pulling a bank account: `retrieve` and `_extract` of core/scrapers/     *)
(* dfcu_financial_bank.py, page by page, newest first, from an account to  *)
(* which the bank may post while the pages are read; and the two checks    *)
(* against the bank's own numbers.                                         *)
(*                                                                         *)
(* A row is its place in the account, oldest first; the account is the     *)
(* amounts. No two rows are of the same instant: of such the order is lost *)
(* in the sort, and a whole pull may not balance. An amount that is not    *)
(* given is read as 0; only rows that are of 0 are taken to lack it.       *)
(***************************************************************************)
EXTENDS Integers, Sequences, FiniteSets, SequencesExt, Totals

CONSTANTS
    Amounts,   \* the amounts of the rows
    PageSize,  \* page_size
    MaxRows    \* bound on the rows of the account

ASSUME BankAssumption ==
    /\ Amounts \subseteq Int
    /\ PageSize \in Nat \ {0} /\ MaxRows \in Nat

VARIABLES
    account,    \* the amounts posted so far
    garbled,    \* rows whose amount is no number
    served,     \* rows the bank puts on a page: it may cap page[size]
    since,      \* the first row of the date window
    raw,        \* the rows read so far
    pageNo,
    anchor,     \* the rows posted when the balance was read; -1: unavailable
    stage

bankVars == <<account, garbled, served, since, raw, pageNo, anchor, stage>>

Rows == 1..MaxRows

BankTypeOK ==
    /\ account \in Seq(Amounts) /\ Len(account) <= MaxRows
    /\ garbled \subseteq Rows
    /\ served \in 1..PageSize /\ since \in 1..(MaxRows + 1)
    /\ raw \in Seq(Rows) /\ pageNo \in Nat \ {0}
    /\ anchor \in -1..MaxRows
    /\ stage \in {"pages", "balance", "done", "failed"}

BankInit ==
    /\ \E n \in 0..MaxRows : account \in [1..n -> Amounts]
    /\ garbled \in SUBSET DOMAIN account
    /\ served \in {PageSize, 1}
    /\ since \in 1..(Len(account) + 1)
    /\ raw = <<>> /\ pageNo = 1 /\ anchor = -1 /\ stage = "pages"

(* The bank's running balance after a row. *)
Balance(n) == Total(SubSeq(account, 1, n))

-----------------------------------------------------------------------------
(* What the bank answers for a page, as the account is now: newest first.    *)
PageOf(k) ==
    LET newest == Len(account) - (k - 1) * served
        count == IF newest <= 0 THEN 0 ELSE IF newest < served THEN newest ELSE served
    IN  [i \in 1..count |-> newest - i + 1]

(* Mutant: a full page is the last. *)
FetchFullPage ==
    LET rows == PageOf(pageNo)
    IN  /\ stage = "pages"
        /\ raw' = raw \o rows
        /\ IF Len(rows) <= PageSize
           THEN stage' = "balance" /\ UNCHANGED pageNo
           ELSE pageNo' = pageNo + 1 /\ UNCHANGED stage
        /\ UNCHANGED <<account, garbled, served, since, anchor>>

(* One request; a page that is not full is taken for the last: also one that *)
(* the bank has cut to a size of its own.                                    *)
FetchPage ==
    LET rows == PageOf(pageNo)
    IN  /\ stage = "pages"
        /\ raw' = raw \o rows
        /\ IF Len(rows) < PageSize
           THEN stage' = "balance" /\ UNCHANGED pageNo
           ELSE pageNo' = pageNo + 1 /\ UNCHANGED stage
        /\ UNCHANGED <<account, garbled, served, since, anchor>>

(* 401, another status, or an exception: a ScrapeError, and no rows at all.  *)
FetchFails ==
    /\ stage = "pages" /\ stage' = "failed"
    /\ UNCHANGED <<account, garbled, served, since, raw, pageNo, anchor>>

(* What _extract can read of the raw rows, and is in the window.             *)
Readable == {i \in DOMAIN raw : raw[i] >= since /\ raw[i] \notin garbled}

(* _extract: a running balance that is no number ends the retrieval; it is   *)
(* read only to compare two rows.                                            *)
ExtractFails ==
    /\ stage = "balance" /\ Cardinality(Readable) >= 2 /\ stage' = "failed"
    /\ UNCHANGED <<account, garbled, served, since, raw, pageNo, anchor>>

(* _account_balance, which gives None rather than fail the scrape. It is not *)
(* asked without rows.                                                       *)
ReadBalance ==
    /\ stage = "balance" /\ stage' = "done"
    /\ anchor' \in IF raw = <<>> THEN {-1} ELSE {-1, Len(account)}
    /\ UNCHANGED <<account, garbled, served, since, raw, pageNo>>

Post ==
    /\ Len(account) < MaxRows /\ stage \notin {"done", "failed"}
    /\ \E a \in Amounts : account' = Append(account, a)
    /\ garbled' \in {garbled, garbled \cup {Len(account) + 1}}
    /\ UNCHANGED <<served, since, raw, pageNo, anchor, stage>>

BankNext == FetchPage \/ FetchFails \/ ExtractFails \/ ReadBalance \/ Post

BankSpec == BankInit /\ [][BankNext]_bankVars

-----------------------------------------------------------------------------
(* The order of what is kept is by row, and of equal ones as they came.      *)
Earlier(i) == {j \in Readable : raw[j] < raw[i] \/ (raw[j] = raw[i] /\ j < i)}

(* _extract: those, oldest first.                                            *)
Kept ==
    [k \in 1..Cardinality(Readable) |->
       raw[CHOOSE i \in Readable : Cardinality(Earlier(i)) = k - 1]]

(* Mutant: the chain is begun one row late. *)
ChainFromSecond(s) ==
    \A i \in 3..Len(s) : account[s[i]] = Balance(s[i]) - Balance(s[i - 1])

(* Consecutive running balances differ by the amount of the later row.       *)
Chain(s) ==
    \A i \in 2..Len(s) : account[s[i]] = Balance(s[i]) - Balance(s[i - 1])

(* _reconcile_against_account_balance: where the newest of the raw rows ends *)
(* is the balance the bank states.                                           *)
Anchored ==
    LET newest == CHOOSE r \in ToSet(raw) : \A q \in ToSet(raw) : q <= r
    IN  /\ raw # <<>> /\ anchor # -1
        /\ Balance(newest) = Balance(anchor)

-----------------------------------------------------------------------------
(* What a pull is worth. If the bank serves pages as large as it is asked    *)
(* for, every readable row of the window that was there at the first page is *)
(* in it, though posts shift the pages meanwhile. If the chain has balanced, *)
(* none but a row of 0 is in it twice -- a shifted page repeats one, and the *)
(* chain does not see it --, and what lacks between two rows sums to         *)
(* nothing. If the anchor has too, and nothing was garbled or out of the     *)
(* window, its amounts sum to the balance the bank states.                   *)
PullIsWhole ==
    stage = "done" =>
        /\ served = PageSize /\ raw # <<>> =>
             \A r \in since..raw[1] : r \in ToSet(Kept) \cup garbled
        /\ Chain(Kept) =>
             \A i \in 2..Len(Kept) :
                /\ Kept[i] = Kept[i - 1] => account[Kept[i]] = 0
                /\ Total(SubSeq(account, Kept[i - 1] + 1, Kept[i] - 1)) = 0
        /\ Chain(Kept) /\ Anchored /\ served = PageSize
             /\ since = 1 /\ garbled = {} =>
             Total([i \in DOMAIN Kept |-> account[Kept[i]]]) = Balance(anchor)
=============================================================================
