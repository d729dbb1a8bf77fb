------------------------------ MODULE TelegramLink ------------------------------
(***************************************************************************)
(* Connecting a Telegram chat: a user mints a deep link, chats open it,    *)
(* and the bot's webhook burns the link's token and records the chat.      *)
(*                                                                         *)
(* What one webhook transaction writes becomes visible at its commit, and  *)
(* a second one waits for the token's row, so its writes are one step; the *)
(* token is read in an earlier one, without a lock.  Ticks are minutes of  *)
(* the clock; a token is its row, by the hash of its text.                 *)
(***************************************************************************)
EXTENDS Naturals, FiniteSets

CONSTANTS
  Owner, Chat,   \* users who mint links, and Telegram chats
  Token,         \* telegram_link_tokens (bound)
  Delivery,      \* webhook calls (bound)
  TokenTtl,      \* TOKEN_TTL
  LastMinute     \* bound

ASSUME TelegramAssumption ==
  /\ IsFiniteSet(Token) /\ IsFiniteSet(Delivery)
  /\ TokenTtl \in Nat \ {0} /\ LastMinute \in Nat

VARIABLES
  minute,
  token,      \* telegram_link_tokens: owner, expires_at, used_at
  delivery,   \* webhook calls: the token, the chat, and what was read
  connected   \* push_subscriptions of Telegram: user and chat

telegramVars == <<minute, token, delivery, connected>>

Never == LastMinute + TokenTtl + 1
NotMinted == [owner |-> "nobody", expires |-> 0, used |-> Never]
Unsent == [at |-> "unsent", token |-> "none", chat |-> "none", now |-> 0, past |-> {}]

TelegramInit ==
  /\ minute = 0 /\ connected = {}
  /\ token = [t \in Token |-> NotMinted]
  /\ delivery = [d \in Delivery |-> Unsent]

\* create_link_token.
Mint(u, t) ==
  /\ token[t] = NotMinted
  /\ token' = [token EXCEPT ![t] = [owner |-> u, expires |-> minute + TokenTtl, used |-> Never]]
  /\ UNCHANGED <<minute, delivery, connected>>

\* consume_link_token, up to the check.  A text that was never minted has no row.
StillValid(row) == row # NotMinted /\ row.expires > minute
Redeemable(row) == row # NotMinted /\ row.used = Never /\ row.expires > minute

\* A chat sends /start.  "past" is history: the calls that linked before.
Open(d, t, chat) ==
  /\ delivery[d] = Unsent
  /\ delivery' = [delivery EXCEPT ![d] =
       IF Redeemable(token[t])
       THEN [at |-> "read", token |-> t, chat |-> chat, now |-> minute,
             past |-> {e \in Delivery : delivery[e].at = "linked"}]
       ELSE [Unsent EXCEPT !.at = "ignored"]]
  /\ UNCHANGED <<minute, token, connected>>

\* The rest of consume_link_token and the webhook, to its commit.
Link(d) ==
  /\ delivery[d].at = "read"
  /\ token' = [token EXCEPT ![delivery[d].token].used = delivery[d].now]
  /\ connected' = connected \cup {<<token[delivery[d].token].owner, delivery[d].chat>>}
  /\ delivery' = [delivery EXCEPT ![d].at = "linked"]
  /\ UNCHANGED minute

\* The call fails before its commit.  Telegram is always answered, or gives up:
\* nothing is written and nothing is tried again.
Drop(d) ==
  /\ delivery[d].at = "read"
  /\ delivery' = [delivery EXCEPT ![d] = [Unsent EXCEPT !.at = "ignored"]]
  /\ UNCHANGED <<minute, token, connected>>

\* disconnect_telegram.
Disconnect(u) ==
  /\ connected' = {c \in connected : c[1] # u}
  /\ UNCHANGED <<minute, token, delivery>>

Wait ==
  /\ minute < LastMinute /\ minute' = minute + 1
  /\ UNCHANGED <<token, delivery, connected>>

TelegramNext ==
  \/ \E u \in Owner, t \in Token : Mint(u, t)
  \/ \E d \in Delivery, t \in Token, chat \in Chat : Open(d, t, chat)
  \/ \E d \in Delivery : Link(d) \/ Drop(d)
  \/ \E u \in Owner : Disconnect(u)
  \/ Wait

TelegramSpec == TelegramInit /\ [][TelegramNext]_telegramVars

-----------------------------------------------------------------------------

Linked(t) == {d \in Delivery : delivery[d].at = "linked" /\ delivery[d].token = t}

\* What a link can do is bounded: it connects only chats that opened it while
\* it was valid, to the user who minted it, and a second chat only when both
\* calls had read the token before either burnt it.  A chat stays connected
\* through no link that was burnt before it was opened (consume_link_token,
\* telegram_webhook).
LinksAreEarned ==
  /\ \A c \in connected :
       \E t \in Token : \E d \in Linked(t) :
         /\ token[t].owner = c[1] /\ delivery[d].chat = c[2]
         /\ delivery[d].now < token[t].expires
  /\ \A t \in Token : \A d, e \in Linked(t) : e \notin delivery[d].past

\* The claim of the module: a link works once.
LinkIsSingleUse == \A t \in Token : Cardinality(Linked(t)) <= 1
=============================================================================
