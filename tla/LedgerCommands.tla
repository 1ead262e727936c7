---------------------------- MODULE LedgerCommands ----------------------------
(***************************************************************************)
(* The commands of LedgerService: which accounts each money flow debits    *)
(* and credits, and what it says it is about.  Each is one posting.        *)
(***************************************************************************)
EXTENDS Postings

CONSTANTS BankClearing, RaliaRevenue   \* the two platform accounts

\* One entry of n kobo on account a; an entry of 0 kobo is left out.
On(a, n) == [x \in Account |-> IF x = a THEN n ELSE 0]

Plus(f, g) == [x \in Account |-> f[x] + g[x]]

Posting(key, ref, debit, credit) ==
  [key |-> key, ref |-> ref, debit |-> debit, credit |-> credit]

FundCampaign(campaign, escrow, amount, key) ==
  Posting(key, <<"CAMPAIGN_FUNDING", "campaign", campaign>>,
          On(BankClearing, amount), On(escrow, amount))

SettleSubmission(submission, escrow, promoter, fee, take, key) ==
  Posting(key, <<"SUBMISSION_PAYOUT", "submission", submission>>,
          On(escrow, fee + take), Plus(On(promoter, fee), On(RaliaRevenue, take)))

PayWithdrawal(withdrawal, promoter, amount, key) ==
  Posting(key, <<"WITHDRAWAL_PAID", "withdrawal", withdrawal>>,
          On(promoter, amount), On(BankClearing, amount))

ReverseWithdrawal(withdrawal, promoter, amount, key) ==
  Posting(key, <<"WITHDRAWAL_REVERSED", "withdrawal", withdrawal>>,
          On(BankClearing, amount), On(promoter, amount))

RetainCampaignRemainder(campaign, escrow, amount, key) ==
  Posting(key, <<"ADJUSTMENT", "campaign", campaign>>,
          On(escrow, amount), On(RaliaRevenue, amount))

RefundCampaign(campaign, escrow, wallet, amount, key) ==
  Posting(key, <<"CAMPAIGN_REFUND", "campaign", campaign>>,
          On(escrow, amount), On(wallet, amount))

===============================================================================
