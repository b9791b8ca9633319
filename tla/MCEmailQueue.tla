----------------------------- MODULE MCEmailQueue -----------------------------
EXTENDS EmailQueue, TLC

\* A verification code, a price alert, and a job of another deployment.
CONSTANTS code, alert, legacy, c1, c2, w1, w2

ValidMessages ==
  code :> Verification @@ alert :> PriceAlert("BUY", "plain")
  @@ legacy :> Sent("digest", [body |-> "text"])

\* A coin that is worth less than a millionth of a dollar.
TinyQuote == code :> Suspension("null") @@ alert :> PriceAlert("BUY", "exponent")
===============================================================================
