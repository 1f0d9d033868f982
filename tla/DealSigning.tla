----------------------------- MODULE DealSigning -----------------------------
(***************************************************************************)
(* Negotiation of one deal, from the draft CreateDeal inserts to its       *)
(* approval or rejection.  The two sides edit the draft, register a wallet *)
(* and a payout address, and sign; every HTTP request is a goroutine of    *)
(* the market service, and UpdateDealDraft and SignDeal read the row in    *)
(* one statement and write it in another, so what they write may be stale. *)
(*                                                                         *)
(* Single-statement updates of the row are atomic, and so is SignDealInTx: *)
(* its transaction is SERIALIZABLE and updates the row it read, hence it   *)
(* either sees no concurrent change of the row or aborts.                  *)
(***************************************************************************)
EXTENDS Naturals, Sequences

CONSTANTS
    Users,          \* users of the mini app, the two sides among them
    Lessor, Lessee, \* deal.lessor_id, deal.lessee_id
    Options,        \* listing prices: records [type, duration, price]
    Decimal,        \* Decimal[n]: the digits fmt.Sprintf("%d", n) writes
    Details,        \* canonical JSON of the deal details
    BlankDetails,   \* the details whose trimmed message is empty
    UserId,         \* UserId[u]: the digits of the id of u
    Addresses,      \* the texts given for wallets and payout addresses
    None,           \* SQL NULL
    Requests,       \* handler goroutines in flight
    MaxRequests     \* bound: HTTP requests served in a behaviour

Sides == {Lessor, Lessee}

ASSUME SidesAssumption == Sides \subseteq Users /\ Lessor # Lessee

(***************************************************************************)
(* A character is a number, a digit itself.  The handlers only ask for an  *)
(* address that is not empty: it need not parse, nor have a given length.  *)
(***************************************************************************)
ASSUME AddressesAssumption ==
    /\ Addresses \subseteq Seq(Nat) \ {<< >>} /\ None \notin Addresses
    /\ \A u \in Users : UserId[u] \in Seq(0..9)

(***************************************************************************)
(* DealPriceMatchesListing accepts a (type, duration, price) only when the *)
(* type is the "<n>hr" text of the option and the duration is that n, so   *)
(* the type of an accepted option determines its duration.                 *)
(***************************************************************************)
ASSUME OptionsAssumption ==
    /\ \A o \in Options : /\ o.duration \in Nat /\ o.price \in Nat
                          /\ Decimal[o.duration] \in Seq(0..9)
                          /\ Decimal[o.price] \in Seq(0..9)
    /\ \A o, p \in Options :
        /\ o.type = p.type => o.duration = p.duration
        /\ Decimal[o.price] = Decimal[p.price] => o.price = p.price
    /\ \A o \in Options :
        o = [type |-> o.type, duration |-> o.duration, price |-> o.price]

ASSUME BoundAssumption == MaxRequests \in Nat

VARIABLES
    deal,       \* the row of market.deal
    wallet,     \* market.user.wallet_address
    req,        \* what each handler goroutine holds between two statements
    attested,   \* history: what was signed, and with which wallet connected
    served      \* requests opened so far, to bound the model

vars == <<deal, wallet, req, attested, served>>

-----------------------------------------------------------------------------
(* The payload of a signature: SHA-256, taken to be injective, of the      *)
(* fields written one after the other with no separator between them.  The *)
(* text can be read back up to the details, a type ending in "hr" and the  *)
(* details being a JSON object; the user's id and the two addresses after  *)
(* them are one text.                                                      *)

(* mutant: the deal type is left out of the hash *)
EncodeOptionNoType(o) == Decimal[o.duration] \o Decimal[o.price]

EncodeOption(o) == <<o.type, Decimal[o.duration] \o Decimal[o.price]>>

Text(address) == IF address = None THEN << >> ELSE address

PayoutText(payout) == Text(payout[Lessor]) \o Text(payout[Lessee])

ComputeDealSignature(o, details, user, payout) ==
    [option |-> EncodeOption(o), details |-> details,
     tail |-> UserId[user] \o PayoutText(payout)]

Payouts == [Sides -> Addresses \cup {None}]

(* What can be signed: the payload of terms with both addresses.           *)
Signatures ==
    {ComputeDealSignature(o, details, u, payout) : o \in Options,
        details \in Details, u \in Users, payout \in [Sides -> Addresses]}

DealSignaturesMatch(d) ==
    \A s \in Sides :
        d.signature[s] = ComputeDealSignature(d.option, d.details, s, d.payout)

ASSUME NoSignatureAssumption ==
    \A o \in Options, details \in Details, u \in Users, payout \in Payouts :
        None # ComputeDealSignature(o, details, u, payout)

(* The checks every write of the row repeats in its WHERE clause or in its   *)
(* transaction: the caller is a side and the deal still is a draft.          *)

(* mutant: only the side is checked *)
EditableBySide(u) == u \in Sides

EditableBy(u) == u \in Sides /\ deal.status = "draft"

-----------------------------------------------------------------------------
Idle == [op |-> "idle"]

CreateDeal(o, details) ==
    [status |-> "draft", option |-> o, details |-> details,
     payout |-> [s \in Sides |-> None], signature |-> [s \in Sides |-> None]]

Init ==
    /\ deal \in {CreateDeal(o, details) : o \in Options, details \in Details}
    /\ wallet \in [Users -> Addresses \cup {None}]
    /\ req = [r \in Requests |-> Idle]
    /\ attested = {}
    /\ served = 0

Serve == served < MaxRequests /\ served' = served + 1

SetWallet(u) ==
    /\ Serve
    /\ \E a \in Addresses : wallet' = [wallet EXCEPT ![u] = a]
    /\ UNCHANGED <<deal, req, attested>>

DisconnectWallet(u) ==
    /\ Serve
    /\ wallet' = [wallet EXCEPT ![u] = None]
    /\ UNCHANGED <<deal, req, attested>>

(* The status and side checks of the handler are repeated by the WHERE     *)
(* clause; signatures are not cleared.                                     *)
SetDealPayoutAddress(u) ==
    /\ Serve
    /\ EditableBy(u)
    /\ \E a \in Addresses : deal' = [deal EXCEPT !.payout[u] = a]
    /\ UNCHANGED <<wallet, req, attested>>

RejectDeal(u) ==
    /\ Serve
    /\ EditableBy(u)
    /\ deal' = [deal EXCEPT !.status = "rejected"]
    /\ UNCHANGED <<wallet, req, attested>>

(* PATCH /market/deals/{id}: the handler merges the fields of the request  *)
(* into the row it has read (at least one of them is given) ...            *)
ReadDraft(r, u) ==
    /\ Serve
    /\ req[r] = Idle
    /\ \E o \in Options \cup {deal.option}, details \in Details \cup {deal.details} :
        req' = [req EXCEPT ![r] = [op |-> "update", user |-> u,
                                   option |-> o, details |-> details]]
    /\ UNCHANGED <<deal, wallet, attested>>

(* ... and the service writes the merged row if it still is a draft.       *)
UpdateDealDraft(r) ==
    /\ req[r].op = "update"
    /\ deal' = IF EditableBy(req[r].user)
               THEN [deal EXCEPT !.option = req[r].option,
                                 !.details = req[r].details,
                                 !.signature = [s \in Sides |-> None]]
               ELSE deal
    /\ req' = [req EXCEPT ![r] = Idle]
    /\ UNCHANGED <<wallet, attested, served>>

(* POST /market/deals/{id}/sign.  SignDeal reads the deal ...              *)
SignDeal(r, u) ==
    /\ Serve
    /\ req[r] = Idle
    /\ req' = [req EXCEPT ![r] = [op |-> "sign", user |-> u,
                                  option |-> deal.option,
                                  details |-> deal.details,
                                  payout |-> deal.payout]]
    /\ UNCHANGED <<deal, wallet, attested>>

MaySignBlank(q) == \* mutant: the message is not required
    /\ \A s \in Sides : q.payout[s] # None
    /\ wallet[q.user] = q.payout[IF q.user = Lessor THEN Lessor ELSE Lessee]

MaySignUnpaid(q) == \* mutant: the payout addresses are not required
    /\ q.details \notin BlankDetails
    /\ wallet[q.user] = q.payout[IF q.user = Lessor THEN Lessor ELSE Lessee]

(* ... then the user, whose wallet must be the payout address of their     *)
(* side (of the lessee, for anybody but the lessor), and signs the read    *)
(* copy ...                                                                *)
MaySign(q) ==
    /\ \A s \in Sides : q.payout[s] # None
    /\ q.details \notin BlankDetails
    /\ wallet[q.user] = q.payout[IF q.user = Lessor THEN Lessor ELSE Lessee]

CheckWallet(r) ==
    /\ req[r].op = "sign"
    /\ LET q   == req[r]
           sig == ComputeDealSignature(q.option, q.details, q.user, q.payout)
       IN  IF MaySign(q)
           THEN /\ req' = [req EXCEPT ![r] = [op |-> "signed", user |-> q.user,
                                              signature |-> sig]]
                /\ attested' = attested \cup
                     {[user |-> q.user, option |-> q.option, details |-> q.details,
                       payout |-> q.payout, wallet |-> wallet[q.user]]}
           ELSE req' = [req EXCEPT ![r] = Idle] /\ UNCHANGED attested
    /\ UNCHANGED <<deal, wallet, served>>

(* ... and stores the signature in a transaction that approves the deal    *)
(* when both stored signatures match the stored terms.                     *)
SignDealInTx(r) ==
    /\ req[r].op = "signed"
    /\ LET u == req[r].user
           d == [deal EXCEPT !.signature[u] = req[r].signature]
       IN  deal' = IF EditableBy(u)
                   THEN IF DealSignaturesMatch(d)
                        THEN [d EXCEPT !.status = "approved"] ELSE d
                   ELSE deal
    /\ req' = [req EXCEPT ![r] = Idle]
    /\ UNCHANGED <<wallet, attested, served>>

(* A statement or the commit fails (a serialization failure at commit is   *)
(* dropped by SignDealInTx and reported as success), or the client or the  *)
(* process goes away: the request has no further effect.                   *)
Abort(r) ==
    /\ req[r] # Idle
    /\ req' = [req EXCEPT ![r] = Idle]
    /\ UNCHANGED <<deal, wallet, attested, served>>

Next ==
    \/ \E u \in Users : SetWallet(u) \/ DisconnectWallet(u)
    \/ \E u \in Users : SetDealPayoutAddress(u) \/ RejectDeal(u)
    \/ \E r \in Requests, u \in Users : ReadDraft(r, u) \/ SignDeal(r, u)
    \/ \E r \in Requests :
        UpdateDealDraft(r) \/ CheckWallet(r) \/ SignDealInTx(r) \/ Abort(r)

Spec == Init /\ [][Next]_vars

-----------------------------------------------------------------------------
(* What a handler may hold: a merged draft, a read copy of the deal, or a    *)
(* signature about to be stored.                                             *)
RequestState ==
    {Idle}
    \cup [op : {"update"}, user : Users, option : Options, details : Details]
    \cup [op : {"sign"}, user : Users, option : Options, details : Details,
          payout : Payouts]
    \cup [op : {"signed"}, user : Users, signature : Signatures]

(* Types of the row, the wallets, the handlers' locals and the history.      *)
TypeOK ==
    /\ deal \in [status    : {"draft", "approved", "rejected"},
                 option    : Options,
                 details   : Details,
                 payout    : Payouts,
                 signature : [Sides -> Signatures \cup {None}]]
    /\ wallet \in [Users -> Addresses \cup {None}]
    /\ req \in [Requests -> RequestState]
    /\ attested \subseteq [user : Users, option : Options, details : Details,
                           payout : [Sides -> Addresses], wallet : Addresses]
    /\ served \in Nat

(* An approved deal was signed by both sides on exactly the option and the   *)
(* details it carries, and on payout addresses that are written the same one *)
(* after the other, each side with its own of them as the connected wallet:  *)
(* however the requests interleave, SignDealInTx never approves on a         *)
(* signature SignDeal computed from an older copy of the row that differs in *)
(* more than where one address ends and the other begins.                    *)
ApprovedOnSameTerms ==
    deal.status = "approved" =>
        \A s \in Sides : \E c \in attested :
            /\ c.user = s /\ c.wallet = c.payout[s]
            /\ c.option = deal.option /\ c.details = deal.details
            /\ PayoutText(c.payout) = PayoutText(deal.payout)

(* "Then both signatures use the same payload": the payout addresses of an   *)
(* approved deal are the two that both sides signed.  Nothing makes it so    *)
(* but addresses of one length, which the handlers do not ask for.           *)
ApprovedOnSamePayouts ==
    deal.status = "approved" =>
        \A s \in Sides : \E c \in attested :
            c.user = s /\ c.payout = deal.payout /\ c.wallet = deal.payout[s]

(* What the escrow worker and the post sender need of an approved deal is    *)
(* there: both payout addresses and a message to post.  SignDeal checks them *)
(* on the copy it has read only, SignDealInTx does not check them again.     *)
ApprovedIsExecutable ==
    deal.status = "approved" =>
        /\ \A s \in Sides : deal.payout[s] # None
        /\ deal.details \notin BlankDetails

(* Once approved or rejected the row is out of reach of the handlers: an     *)
(* update, a payout change, a signature or a rejection that was under way    *)
(* when the status changed has no effect.                                    *)
ClosedDealFrozen == [][deal.status # "draft" => UNCHANGED deal]_vars

(* A signature the user u made over terms with a message, with both payout   *)
(* addresses set and the user's wallet equal to the one of their side.       *)
Attested(sig, u) ==
    \E c \in attested :
        /\ c.user = u
        /\ sig = ComputeDealSignature(c.option, c.details, u, c.payout)
        /\ u \in Sides => c.wallet = c.payout[u]
        /\ c.details \notin BlankDetails

(* Every signature that is stored, or about to be, is one.                   *)
SignaturesAttested ==
    /\ \A s \in Sides : deal.signature[s] # None => Attested(deal.signature[s], s)
    /\ \A r \in Requests :
        req[r].op = "signed" => Attested(req[r].signature, req[r].user)

(* A payout address is replaced, never removed: once a copy of the row with  *)
(* both addresses has been signed, the row has both.                         *)
PayoutsKept ==
    /\ \A s, t \in Sides : deal.signature[s] # None => deal.payout[t] # None
    /\ \A r \in Requests, t \in Sides :
        /\ req[r].op = "signed" => deal.payout[t] # None
        /\ req[r].op = "sign" /\ req[r].payout[t] # None => deal.payout[t] # None

(* The inductive invariant behind the theorems of DealSigningProofs.         *)
ApprovalInv ==
    /\ TypeOK
    /\ SignaturesAttested /\ PayoutsKept
    /\ deal.status = "approved" => DealSignaturesMatch(deal)
=============================================================================
