------------------------------- MODULE Server -------------------------------
(***************************************************************************)
(* Pricing, Quotes, Accounts and Listings on the one server and the one    *)
(* Redis they share: a restart ends the handlers of all, and seeds the     *)
(* prices again before any call is taken (AppModule.onModuleInit); a loss  *)
(* of Redis takes the prices and the one-time codes together.              *)
(***************************************************************************)
EXTENDS Quotes, Accounts, Listings

VARIABLE traffic    \* bound: the components that calls of this behaviour are for

serverVars == <<vars, quoteVars, accountVars, listVars, traffic>>

-----------------------------------------------------------------------------
\* bound: with orders, a failed write takes the place of a restart and of an update
OneMishap ==
    traffic = "orders" =>
        restarts' + failures' <= 1 /\ updates' + failures' <= MaxUpdates

\* Orders, accounts and lists write different keys and tables, so calls for them in
\* one behaviour would only shuffle steps that commute.
ForPricing ==
    /\ IF traffic \in {"pricing", "orders"} THEN ServePricing ELSE SeedDefaultPricing
    /\ OneMishap
    /\ PostsSeen
    /\ UNCHANGED <<quote, accountVars, listVars, traffic>>

ForOrders ==
    /\ traffic = "orders"
    /\ ServeOrders
    /\ UNCHANGED <<accountVars, listVars, traffic>>

ForAccounts ==
    /\ traffic = "accounts"
    /\ Up
    /\ ServeAccounts
    /\ UNCHANGED <<vars, quoteVars, listVars, traffic>>

ForLists ==
    /\ traffic = "lists"
    /\ Up
    /\ ServeLists
    /\ UNCHANGED <<vars, quoteVars, accountVars, traffic>>

CodeExpires ==
    /\ \E ph \in Phone : ExpireOtp(ph)
    /\ UNCHANGED <<vars, quoteVars, listVars, traffic>>

\* bound: with lists the server restarts once; with orders or lists Redis keeps its
\* data
RestartServer ==
    /\ traffic = "lists" => restarts = 0
    /\ Restart
    /\ OneMishap
    /\ QuoteEnds
    /\ Crash
    /\ CallLost
    /\ UNCHANGED traffic

LoseRedisData ==
    /\ traffic \in {"pricing", "accounts"}
    /\ LoseRedis
    /\ LoseCodes
    /\ UNCHANGED <<quoteVars, listVars, traffic>>

ServerInit ==
    /\ Init
    /\ QuotesInit
    /\ AccountsInit
    /\ ListsInit
    /\ traffic \in {"pricing", "orders", "accounts", "lists"}
    /\ traffic # "lists" =>
         /\ rows = 0
         /\ where = CHOOSE columns \in Asked : TRUE
         /\ limit = CHOOSE n \in PageSizes : TRUE

ServerNext ==
    \/ ForPricing \/ ForOrders \/ ForAccounts \/ ForLists
    \/ CodeExpires \/ RestartServer \/ LoseRedisData

ServerSpec == ServerInit /\ [][ServerNext]_serverVars

-----------------------------------------------------------------------------
\* The types of the components: what updatePricing writes is a value that the
\* request names, handlers of accounts carry what their writes need, and the rows
\* that a client was shown are rows of the table.
ServerTypeOK == TypeOK /\ QuotesTypeOK /\ AccountsTypeOK /\ ListsTypeOK

=============================================================================
