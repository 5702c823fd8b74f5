------------------------------- MODULE MCParts -------------------------------
(***************************************************************************)
(* Instances of the modules that share no variables with each other.  A    *)
(* behaviour is one of one part, and the others stay as they began: what   *)
(* holds of every part holds of the parts side by side.                    *)
(***************************************************************************)
EXTENDS InventoryHistory, Attachments, CompanyMatch, SingleFlight

CONSTANTS acme, other

VARIABLE part

vars == <<part, inventoryVars, attachmentVars, companyVars, flightVars>>

-----------------------------------------------------------------------------
(* Values of the constants *)

Image(size) == [kind |-> "IMAGE", allowed |-> TRUE, bytes |-> size]
Video(size) == [kind |-> "VIDEO", allowed |-> TRUE, bytes |-> size]

\* In units of 5 MB: at and beyond each limit, and one of another format.
Files == {Image(1), Image(2), Image(3), [Image(1) EXCEPT !.allowed = FALSE],
          Video(1), Video(10), Video(11)}

-----------------------------------------------------------------------------

\* Only short forms of small files are removed again: sizes do not matter then.
Discardable(f) ==
    Len(form[f]) <= 2 /\ \A i \in DOMAIN form[f] : form[f][i].bytes = 1

OfInventory(A) == part = "inventory" /\ A
                    /\ UNCHANGED <<part, attachmentVars, companyVars, flightVars>>
OfAttachments(A) == part = "attachments" /\ A
                      /\ UNCHANGED <<part, inventoryVars, companyVars, flightVars>>
OfCompanies(A) == part = "companies" /\ A
                    /\ UNCHANGED <<part, inventoryVars, attachmentVars, flightVars>>
OfFlights(A) == part = "flights" /\ A
                  /\ UNCHANGED <<part, inventoryVars, attachmentVars, companyVars>>

\* The chosen part begins in each of its ways, the others in one of theirs.  The two
\* names are interchangeable, so that it does not matter which one a client begins
\* with.
Init ==
    /\ part \in {"inventory", "attachments", "companies", "flights"}
    /\ part # "attachments" => form = [f \in Submission |-> <<>>]
    /\ clientName = [k \in TicketClient |-> acme]
    /\ part # "companies" => /\ clientIdField = TRUE
                             /\ companies = <<>>
                             /\ card = [e \in Company |-> CHOOSE c \in Card : TRUE]
    /\ InventoryInit
    /\ AttachmentInit
    /\ CompanyInit
    /\ FlightInit

Next ==
    \/ OfInventory(InventoryNext)
    \/ OfAttachments(/\ AttachmentNext
                     /\ \A f \in Submission : ~Discardable(f) => discard' = discard)
    \/ OfCompanies(CompanyNext)
    \/ OfFlights(FlightNext)

\* There is always another ticket, ClickUp answers or fails, a rendering or a
\* fetch ends, and time passes.
Fairness ==
    /\ WF_vars(OfCompanies(MissesAge))
    /\ \A c \in Linker :
          /\ \A k \in TicketClient : WF_vars(OfCompanies(TicketCreated(c, k)))
          /\ WF_vars(OfCompanies(\/ ResolveClientEntity(c) \/ ReadPage(c)
                                 \/ CacheMatch(c) \/ SetCompany(c)))
    /\ \A x \in Result : /\ WF_vars(OfFlights(MakingEnds(x)))
                         /\ WF_vars(OfFlights(CacheResult(x)))
                         /\ WF_vars(OfFlights(ForgetFailed(x)))

Spec == Init /\ [][Next]_vars /\ Fairness

=============================================================================
