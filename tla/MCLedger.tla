------------------------------- MODULE MCLedger -------------------------------
(***************************************************************************)
(* A small ledger for TLC: one campaign's escrow funded with 2 kobo, two   *)
(* submissions that each want 2 of it, a retried key with a different      *)
(* amount, a malformed posting and one on a missing account.               *)
(***************************************************************************)
EXTENDS Ledger, LedgerCommands

CONSTANTS k1, k2, k3, k4

MCAccount == 1 .. 5
MCKindOf == <<"BANK_CLEARING", "CAMPAIGN_ESCROW", "PROMOTER_AVAILABLE", "RALIA_REVENUE",
              "CLIENT_WALLET">>
MCExisting == 1 .. 4
MCKey == {k1, k2, k3, k4}

\* The postings callers ask for.
MCInput == {
  FundCampaign("c", 2, 2, k1),
  FundCampaign("c", 2, 1, k1),
  SettleSubmission("s1", 2, 3, 1, 1, k2),
  SettleSubmission("s2", 2, 3, 2, 0, k3),
  RefundCampaign("c", 2, 5, 2, k4),
  Posting(k4, <<"ADJUSTMENT", "campaign", "c">>, On(2, 2), On(4, 1)) }

MCRef == {input.ref : input \in MCInput}

===============================================================================
