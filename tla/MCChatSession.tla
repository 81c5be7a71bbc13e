----------------------------- MODULE MCChatSession -----------------------------
(* Instances of ChatSession: the frames the bot uses.                        *)
EXTENDS ChatSession

Text(says) == [says |-> says, widget |-> "none"]

Talk    == Text({"news"})
Hello   == Text({"greet"})
Ask     == Text({"news", "ask", "code", "sent"})
Mailing == Text({"news", "email", "got"})
Hold    == Text({"news", "hold"})
Outage  == Text({"news", "outage"})
Methods == [says |-> {"news", "email"}, widget |-> "single"]
Resend  == [says |-> {"news", "ask", "code"}, widget |-> "quick"]

\* Everything, and what the OTP dialogue alone needs.
AllFrames == {Talk, Hello, Ask, Mailing, Hold, Outage, Methods, Resend}

=============================================================================
