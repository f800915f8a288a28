------------------------------ MODULE Wallets ------------------------------
(***************************************************************************)
(* Wallets: deposits, withdrawals and transfers                            *)
(* (src/backend/modules/wallet/service.ts), over the posting core of       *)
(* Ledger.  A wallet has no stored balance: every operation derives it     *)
(* from the ledger, in the transaction that posts.  Each operation is one  *)
(* db.$transaction after reads that cannot change, so one action.          *)
(*                                                                         *)
(* A client that lost a response asks again.  The key of a withdrawal or a *)
(* transfer is made of all it says; a deposit has one if it names a        *)
(* reference.                                                              *)
(***************************************************************************)
EXTENDS Ledger

CONSTANTS
  DepositRefs,        \* references deposits are made with
  NoReference,        \* a deposit without one
  WalletAmounts,
  Notes               \* what tells two equal movements apart

ASSUME WalletAssumption ==
  /\ WalletAmounts \subseteq Nat \ {0}
  /\ NoReference \notin DepositRefs
  /\ Wallets \cap {"CASH", "ESCROW", "EXPENSE"} = {}

VARIABLES
  opened,             \* wallets that have been created
  refused             \* the movement last answered "insufficient", if any

walletVars == <<opened, refused>>

DepositKey(w, amount, ref) ==
  IF ref = NoReference THEN NoKey ELSE <<"wallet.deposit", w, amount, ref>>
WithdrawKey(w, amount, note) == <<"wallet.withdraw", w, amount, note>>
TransferKey(v, w, amount, note) == <<"wallet.transfer", v, w, amount, note>>

\* The movements that can be refused: those that take from a wallet.
Movements ==
  {WithdrawKey(w, a, n) : w \in Wallets, a \in WalletAmounts, n \in Notes}
    \cup {TransferKey(v, w, a, n) :
            v \in Wallets, w \in Wallets, a \in WalletAmounts, n \in Notes}

WalletTypeOK == opened \subseteq Wallets /\ refused \subseteq Movements

WalletInit == opened = {} /\ refused = {}

\* derivedBalance of a wallet account, a liability: credits - debits.
WalletBalance(w) == - sums[w]

\* createWallet: the wallet and its ledger account, in one transaction.
CreateWallet(w) ==
  /\ w \notin opened
  /\ opened' = opened \cup {w}
  /\ UNCHANGED <<ledgerVars, refused>>

Deposit(w, amount, ref) ==
  /\ w \in opened
  /\ Post(DepositKey(w, amount, ref), TwoLegs("CASH", w, amount), 0)
  /\ UNCHANGED walletVars

\* fault: the retry of a movement that emptied the wallet is refused.
SufficientFirst(key, w, amount) == WalletBalance(w) >= amount

\* fault: the balance is not looked at.
SufficientUnchecked(key, w, amount) == TRUE

\* The balance is looked at after the replay check.
Sufficient(key, w, amount) == Replays(key) \/ WalletBalance(w) >= amount

\* What withdraw and transfer share: replay, refuse or post.
TakeFrom(w, key, to, amount) ==
  /\ w \in opened
  /\ IF Sufficient(key, w, amount)
       THEN /\ Post(key, TwoLegs(w, to, amount), 0)
            /\ refused' = refused \ {key}
       ELSE /\ refused' = {key}
            /\ UNCHANGED ledgerVars
  /\ UNCHANGED opened

Withdraw(w, amount, note) ==
  TakeFrom(w, WithdrawKey(w, amount, note), "CASH", amount)

TransferMoney(v, w, amount, note) ==
  /\ w \in opened
  /\ TakeFrom(v, TransferKey(v, w, amount, note), w, amount)

WalletStep ==
  \E w \in Wallets :
    \/ CreateWallet(w)
    \/ \E amount \in WalletAmounts :
         \/ \E ref \in DepositRefs \cup {NoReference} : Deposit(w, amount, ref)
         \/ \E note \in Notes : \/ Withdraw(w, amount, note)
                                \/ \E v \in Wallets : TransferMoney(v, w, amount, note)

-----------------------------------------------------------------------------
\* No wallet is overdrawn, whatever is deposited, withdrawn, transferred and
\* asked for again (the balance is derived inside the transaction, §39).
WalletsSolvent == \A w \in Wallets : WalletBalance(w) >= 0

\* A movement whose money has moved is never told "insufficient" when it is
\* asked for again: "the money already moved once" (service.ts:715).
NoRefusalAfterMoving == \A key \in refused : PriorTxns(key) = {}
=============================================================================
