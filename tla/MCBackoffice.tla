---------------------------- MODULE MCBackoffice ----------------------------
(***************************************************************************)
(* What the admin keeps of the shop: reviews (Moderation), stock           *)
(* (Inventory) and products (ProductForm).  They share no state that       *)
(* matters to them, so an instance looks at one of them at a time.         *)
(***************************************************************************)
EXTENDS Moderation, Sequences

CONSTANTS
  Products, MaxStock, MaxSaves, MaxLost,  \* Inventory
  Slots, Images, Sizes, Templates         \* ProductForm

ASSUME MCBackofficeAssumption ==
  /\ MaxStock \in Nat
  /\ Slots \in Nat \ {0} /\ IsFiniteSet(Images) /\ Images \subseteq Nat \ {0}
  /\ \A t \in DOMAIN Templates : Templates[t] # {}

VARIABLES
  section,                                                             \* the part looked at
  stock, stockReads, stockShown, draft, saves, count, savingAll, overtyped, unsaved,
  lost,                                                                \* Inventory
  phase, creating, slots, sizes, measured, template, enabled, product  \* ProductForm

Stock == INSTANCE Inventory WITH reads <- stockReads, shown <- stockShown, crossed <- overtyped
Form == INSTANCE ProductForm

stockVars == <<stock, stockReads, stockShown, draft, saves, count, savingAll, overtyped,
               unsaved, lost>>
formVars == <<phase, creating, slots, sizes, measured, template, enabled, product>>
backofficeVars == <<section, reviewVars, stockVars, formVars>>

\* What is not looked at starts in one of its states, and stays there; at most one review
\* was rewarded before.
BackofficeInit ==
  /\ section \in {"reviews", "inventory", "form"}
  /\ ReviewsInit /\ Stock!Init /\ Form!Init
  /\ Cardinality({r \in Reviews : review[r].granted}) <= IF section = "reviews" THEN 1 ELSE 0
  /\ section # "form" => creating /\ template = (CHOOSE t \in DOMAIN Templates : TRUE)

BackofficeNext ==
  \/ section = "reviews" /\ ReviewsNext /\ UNCHANGED <<section, stockVars, formVars>>
  \/ section = "inventory" /\ Stock!Next /\ UNCHANGED <<section, reviewVars, formVars>>
  \/ section = "form" /\ Form!Next /\ UNCHANGED <<section, reviewVars, stockVars>>

BackofficeSpec == BackofficeInit /\ [][BackofficeNext]_backofficeVars

\* What is typed is kept or saved: in the inventory, what was typed into a row whose save
\* failed is still there (Inventory.jsx, persistOne, saveAll); a product has the images that
\* were in the form's slots, in their order (buildImageList), and, offered with the fit
\* assistant, the measurements the server asks for (validationIssues, fitProfileSummary).
TypedIsKept ==
  /\ section = "inventory" => Stock!FailedIsKept
  /\ section = "form" => Form!ImagesAsInSlots /\ Form!EnabledIsReady

\* One measurement, and two.
MCTemplates == [topwear |-> {"chest"}, dress |-> {"chest", "waist"}]
=============================================================================
