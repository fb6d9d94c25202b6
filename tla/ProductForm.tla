---------------------------- MODULE ProductForm -----------------------------
(***************************************************************************)
(* The admin's product form (admin/src/components/ProductForm.jsx) and     *)
(* what the server makes of it (addProduct and updateProduct of            *)
(* controllers/productController.js, services/productFitProfileService.js):*)
(* images in slots, and the measurements the fit assistant needs.          *)
(***************************************************************************)
EXTENDS Integers, Sequences, FiniteSets, SequencesExt

CONSTANTS Slots,      \* how many images a product may have
          Images,     \* images products have already, numbered
          Sizes,
          Templates   \* the fields a measurement template requires, for each template

VARIABLES
  phase,      \* "editing", "sent", or "saved"
  creating,   \* mode: a new product
  slots,      \* imageSlots: Empty, an image the product has, or a new file
  sizes,      \* sizes
  measured,   \* sizeMeasurements: the fields filled in, for each size with a row
  template,   \* measurementTemplate
  enabled,    \* fitEnabled
  product     \* the product as stored: images, sizes, measured, template, enabled

formVars == <<slots, sizes, measured, template, enabled>>
vars == <<phase, creating, formVars, product>>

Empty == 0
File(i) == -i     \* a new file for slot i
IsFile(x) == x < 0
Kept(x) == x > 0
Fields == UNION {Templates[t] : t \in DOMAIN Templates}

\* The elements of s that are in set, in their order.
Picked(s, set) ==
  LET upto[n \in 0..Len(s)] == IF n = 0 THEN <<>>
                               ELSE IF s[n] \in set THEN Append(upto[n - 1], s[n])
                               ELSE upto[n - 1]
  IN upto[Len(s)]

Filled(s) == Picked(s, Int \ {Empty})

\* A new product, or one with its images in the first slots; any measurements.
Init ==
  /\ phase = "editing"
  /\ creating \in BOOLEAN
  /\ slots \in IF creating THEN {[i \in 1..Slots |-> Empty]}
               ELSE {[i \in 1..Slots |-> IF i <= Len(s) THEN s[i] ELSE Empty] :
                       s \in {q \in SetToSeqs(Images) : Len(q) <= Slots}}
  /\ sizes \in IF creating THEN {{}} ELSE (SUBSET Sizes) \ {{}}
  /\ measured \in [sizes -> {{}, Fields}]
  /\ template \in DOMAIN Templates
  /\ enabled = FALSE
  /\ product = [images |-> Filled(slots), sizes |-> sizes, measured |-> measured,
                template |-> template, enabled |-> enabled]

-----------------------------------------------------------------------------
(* The form.                                                               *)

Edit(newSlots, newSizes, newMeasured) ==
  /\ phase = "editing"
  /\ slots' = newSlots /\ sizes' = newSizes /\ measured' = newMeasured
  /\ UNCHANGED <<phase, creating, product>>

\* handleImageChange: a file takes the slot, whatever was there.
ChangeImage(i) ==
  /\ ~IsFile(slots[i])
  /\ Edit([slots EXCEPT ![i] = File(i)], sizes, measured)
  /\ UNCHANGED <<template, enabled>>

\* clearImageSlot
ClearImage(i) ==
  /\ slots[i] # Empty
  /\ Edit([slots EXCEPT ![i] = Empty], sizes, measured)
  /\ UNCHANGED <<template, enabled>>

\* syncSizeMeasurements: a row for each size, empty for a new one.
SyncRows(ss) == [s \in ss |-> IF s \in DOMAIN measured THEN measured[s] ELSE {}]

AddSize(s) ==
  /\ s \notin sizes
  /\ Edit(slots, sizes \cup {s}, SyncRows(sizes \cup {s}))
  /\ UNCHANGED <<template, enabled>>

RemoveSize(s) ==
  /\ s \in sizes
  /\ Edit(slots, sizes \ {s}, SyncRows(sizes \ {s}))
  /\ UNCHANGED <<template, enabled>>

\* updateMeasurementField: the fields the template asks for are offered.
UpdateMeasurement(s, f) ==
  /\ s \in sizes /\ f \in Templates[template]
  /\ Edit(slots, sizes, [measured EXCEPT ![s] = IF f \in @ THEN @ \ {f} ELSE @ \cup {f}])
  /\ UNCHANGED <<template, enabled>>

SetFit(t, e) ==
  /\ Edit(slots, sizes, measured)
  /\ template' = t /\ enabled' = e

\* calculateFitCompleteness: counted over the rows of the page.
AtLeast(n) == IF n > 1 THEN 2 ELSE 1
FormReady ==
  LET complete == {s \in DOMAIN measured : Templates[template] \subseteq measured[s]}
  IN Cardinality(complete) >= AtLeast(Cardinality(sizes)) /\ Cardinality(sizes) >= AtLeast(Cardinality(sizes))

\* validationIssues, as far as images, sizes and fit are concerned.
Valid ==
  /\ sizes # {}
  /\ creating => \E i \in 1..Slots : slots[i] # Empty
  /\ enabled => FormReady

\* onSubmitHandler, buildFormData
Submit ==
  /\ phase = "editing" /\ Valid
  /\ phase' = "sent"
  /\ UNCHANGED <<creating, formVars, product>>

-----------------------------------------------------------------------------
(* The server.                                                             *)

\* existingImages as sent has an empty string for every slot without a kept image;
\* parseStringArray drops the empty strings.
Existing == Picked(slots, Images)

\* Mutant of ImageAt: kept images before files.
KeptFirst(i) ==
  IF i <= Len(Existing) THEN Existing[i] ELSE IF IsFile(slots[i]) THEN slots[i] ELSE Empty

\* buildImageList: what comes of slot i. The kept images are taken by their place among
\* those left, not by their slot.
ImageAt(i) ==
  IF IsFile(slots[i]) THEN slots[i] ELSE IF i <= Len(Existing) THEN Existing[i] ELSE Empty

ImageList == Filled([i \in 1..Slots |-> ImageAt(i)])

\* normalizeSizeMeasurements: the rows of the sizes that are sent.
Normalized == [s \in sizes |-> IF s \in DOMAIN measured THEN measured[s] ELSE {}]

\* addProduct, updateProduct: without an image they refuse.
Save ==
  /\ phase = "sent" /\ ImageList # <<>>
  /\ phase' = "saved"
  /\ product' = [images |-> ImageList, sizes |-> sizes, measured |-> Normalized,
                 template |-> template, enabled |-> enabled]
  /\ UNCHANGED <<creating, formVars>>

\* Refused, or an upload failed: nothing is written, the form stays as it is.
SaveFails ==
  /\ phase = "sent"
  /\ phase' = "editing"
  /\ UNCHANGED <<creating, formVars, product>>

\* buildFitProfileSummary, ready: what the shop goes by.
ServerReady ==
  LET complete == {s \in product.sizes : Templates[product.template] \subseteq product.measured[s]}
  IN /\ Cardinality(product.sizes) >= AtLeast(Cardinality(product.sizes))
     /\ Cardinality(complete) >= AtLeast(Cardinality(product.sizes))

Next ==
  \/ \E i \in 1..Slots : ChangeImage(i) \/ ClearImage(i)
  \/ \E s \in Sizes : AddSize(s) \/ RemoveSize(s) \/ \E f \in Fields : UpdateMeasurement(s, f)
  \/ \E t \in DOMAIN Templates, e \in BOOLEAN : SetFit(t, e)
  \/ Submit \/ Save \/ SaveFails

Spec == Init /\ [][Next]_vars

-----------------------------------------------------------------------------
\* The product has the files and the images that were in the slots, in their order, none
\* twice, whatever was cleared and replaced (buildImageList); only images kept behind a
\* replaced one may get lost.
ImagesAsInSlots ==
  phase = "saved" =>
    LET shown == Filled(slots)
        behind == \E i, j \in 1..Slots : i < j /\ IsFile(slots[i]) /\ Kept(slots[j])
    IN /\ ~behind => product.images = shown
       /\ \A i, j \in DOMAIN product.images : i # j => product.images[i] # product.images[j]
       /\ ToSet(product.images) \subseteq ToSet(shown)
       /\ \A x \in ToSet(shown) : IsFile(x) => x \in ToSet(product.images)

\* A product offered with the fit assistant has the measurements it needs, as the server
\* counts them, although only the form looks (validationIssues, fitProfileSummary).
EnabledIsReady == product.enabled => ServerReady
=============================================================================
