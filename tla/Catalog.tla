------------------------------ MODULE Catalog ------------------------------
(***************************************************************************)
(* The catalogue as administrators edit it: the tree of categories, the    *)
(* products in it and their photographs (admin_catalog_service.py), from   *)
(* the web panel (api/v1/admin) and from the dialogues of the bot          *)
(* (bot/handlers/admin).  Every write begins with one advisory lock, so    *)
(* the writes come one after another; what is not under the lock is what   *)
(* an administrator looked at before: a category or a product on a screen, *)
(* a form half filled in.                                                  *)
(*                                                                         *)
(* A definition marked Mutant is a plausible bug in the definition that    *)
(* follows it.  No action uses it: it shows that the properties can fail.  *)
(***************************************************************************)
EXTENDS Naturals, FiniteSets

CONSTANTS
    Categories, Products, Skus,
    Images,         \* identities of rows of product_images: naturals
    Editors,        \* administrators at a screen or a form
    NoRow, NoParent, NoSku, NoDesk

\* Rows of categories, products and product_images.
CategoryRow == [parent: Categories \cup {NoParent}, count: Nat, active: BOOLEAN]
ProductRow == [category: Categories, sku: Skus]
ImageRow == [product: Products, order: Nat, main: BOOLEAN]

\* A screen of an item; a form: its photographs come after its sku.
Screens == [at: {"item"}, item: Categories \cup Products, current: BOOLEAN]
Forms == [at: {"form"}, category: Categories, sku: {NoSku}, photos: {0}]
         \cup [at: {"form"}, category: Categories, sku: Skus, photos: Nat]

ASSUME CatalogAssumption ==
    /\ IsFiniteSet(Categories) /\ IsFiniteSet(Products) /\ IsFiniteSet(Images)
    /\ Categories \cap Products = {} /\ Images \subseteq Nat
    /\ NoParent \notin Categories /\ NoSku \notin Skus
    /\ NoRow \notin CategoryRow \cup ProductRow \cup ImageRow
    /\ NoDesk \notin Screens \cup Forms

VARIABLES
    category,       \* categories: id -> its parent, products_count, is_active
    product,        \* products: id -> its category, sku
    image,          \* product_images: id -> its product, sort_order, is_main
    desk            \* what each editor has before them

catalogVars == <<category, product, image, desk>>

CatalogInit ==
    /\ category = [c \in Categories |-> NoRow]
    /\ product = [p \in Products |-> NoRow]
    /\ image = [i \in Images |-> NoRow]
    /\ desk = [e \in Editors |-> NoDesk]

Existing == {c \in Categories : category[c] # NoRow}
Offered == {p \in Products : product[p] # NoRow}
ProductsOf(c) == {p \in Offered : product[p].category = c}
Gallery(p) == {i \in Images : image[i] # NoRow /\ image[i].product = p}
SkuFree(s) == \A p \in Offered : product[p].sku # s

-----------------------------------------------------------------------------
(* Screens and forms. *)

\* A screen holds the edit_version of its item, of which only this matters:
\* whether it still is the item's.  Each write of an item moves its version.
LookAt(e, item) ==
    /\ item \in Existing \cup Offered
    /\ desk[e] = NoDesk
    /\ desk' = [desk EXCEPT ![e] = [at |-> "item", item |-> item, current |-> TRUE]]
    /\ UNCHANGED <<category, product, image>>

IsAt(e, step) == desk[e] # NoDesk /\ desk[e].at = step
Holds(e, item) == IsAt(e, "item") /\ desk[e].item = item

\* The editor who wrote leaves the screen, the screens of the others are old.
Wrote(e, item) ==
    desk' = [d \in Editors |->
                IF d = e THEN NoDesk
                ELSE IF Holds(d, item) THEN [desk[d] EXCEPT !.current = FALSE] ELSE desk[d]]

\* _check_edit_version.
SeesCurrent(e, item) == Holds(e, item) /\ desk[e].current

\* A refusal, a change of nothing, a cancel.
LeaveDesk(e) ==
    /\ desk[e] # NoDesk
    /\ desk' = [desk EXCEPT ![e] = NoDesk]
    /\ UNCHANGED <<category, product, image>>

-----------------------------------------------------------------------------
(* Categories. *)

CreateCategory(c, parent) ==
    /\ category[c] = NoRow
    /\ parent \in Existing \cup {NoParent}
    /\ category' = [category EXCEPT ![c] = [parent |-> parent, count |-> 0, active |-> TRUE]]
    /\ UNCHANGED <<product, image, desk>>

\* The walk of _check_parent_change from the new parent up to a root.
AncestorsFrom(parent) ==
    LET up[n \in 0 .. Cardinality(Categories)] ==
            IF n = 0 THEN {parent} \ {NoParent}
            ELSE up[n - 1] \cup ({category[d].parent : d \in up[n - 1]} \ {NoParent})
    IN  up[Cardinality(Categories)]

\* Mutant: a category may not go below itself, but may below its descendants.
MayMoveBelowOwn(c, parent) == parent # c /\ parent \in Existing \cup {NoParent}
MayMove(c, parent) ==
    /\ parent \in Existing \cup {NoParent}
    /\ c \notin AncestorsFrom(parent)

\* _update_category, for update_category and move_category.
MoveCategory(e, c, parent) ==
    /\ SeesCurrent(e, c) /\ MayMove(c, parent) /\ parent # category[c].parent
    /\ category' = [category EXCEPT ![c].parent = parent]
    /\ Wrote(e, c)
    /\ UNCHANGED <<product, image>>

ToggleCategory(e, c) ==
    /\ SeesCurrent(e, c)
    /\ category' = [category EXCEPT ![c].active = ~@]
    /\ Wrote(e, c)
    /\ UNCHANGED <<product, image>>

\* set_category_image, delete_category_image: no version is compared.
ChangeCategoryImage(e, c) ==
    /\ Holds(e, c) /\ c \in Existing
    /\ Wrote(e, c)
    /\ UNCHANGED <<category, product, image>>

\* Nor here; the products are counted anew.
DeleteCategory(e, c) ==
    /\ Holds(e, c) /\ c \in Existing
    /\ ProductsOf(c) = {} /\ \A d \in Existing : category[d].parent # c
    /\ category' = [category EXCEPT ![c] = NoRow]
    /\ Wrote(e, c)
    /\ UNCHANGED <<product, image>>

\* public_category_ids: down from the active roots through active categories.
Public ==
    LET down[n \in 0 .. Cardinality(Categories)] ==
            {c \in Existing : /\ category[c].active
                              /\ category[c].parent \in
                                    IF n = 0 THEN {NoParent} ELSE {NoParent} \cup down[n - 1]}
    IN  down[Cardinality(Categories)]

-----------------------------------------------------------------------------
(* Products. *)

\* create_product.
Create(p, c, s) ==
    /\ product[p] = NoRow /\ c \in Existing /\ SkuFree(s)
    /\ product' = [product EXCEPT ![p] = [category |-> c, sku |-> s]]
    /\ category' = [category EXCEPT ![c].count = @ + 1]

CreateProduct(p, c, s) == Create(p, c, s) /\ UNCHANGED <<image, desk>>

\* update_product: the category.
CountsMove(from, to) ==
    [category EXCEPT ![from].count = IF @ = 0 THEN 0 ELSE @ - 1, ![to].count = @ + 1]

MoveProduct(e, p, c) ==
    /\ SeesCurrent(e, p) /\ c \in Existing \ {product[p].category}
    /\ product' = [product EXCEPT ![p].category = c]
    /\ category' = CountsMove(product[p].category, c)
    /\ Wrote(e, p)
    /\ UNCHANGED image

\* update_product: the sku, or a field that nothing here depends on.
EditProduct(e, p, s) ==
    /\ SeesCurrent(e, p) /\ (s = product[p].sku \/ SkuFree(s))
    /\ product' = [product EXCEPT ![p].sku = s]
    /\ Wrote(e, p)
    /\ UNCHANGED <<category, image>>

\* delete_product: its photographs go with it.
DeleteProduct(e, p) ==
    /\ Holds(e, p) /\ p \in Offered
    /\ category' = [category EXCEPT ![product[p].category].count = IF @ = 0 THEN 0 ELSE @ - 1]
    /\ product' = [product EXCEPT ![p] = NoRow]
    /\ image' = [i \in Images |-> IF i \in Gallery(p) THEN NoRow ELSE image[i]]
    /\ Wrote(e, p)

-----------------------------------------------------------------------------
(* Photographs.  The rows of a product are read in the order of their      *)
(* sort_order and, where two are equal, of their identities.               *)

Before(i, j) ==
    \/ image[i].order < image[j].order
    \/ image[i].order = image[j].order /\ i < j
Place(i, gallery) == Cardinality({j \in gallery : Before(j, i)})
First(gallery) == CHOOSE i \in gallery : Place(i, gallery) = 0
Lesser(a, b) == IF a < b THEN a ELSE b

\* add_product_image.
AddImage(e, p, i) ==
    /\ Holds(e, p) /\ p \in Offered /\ image[i] = NoRow
    /\ image' = [image EXCEPT ![i] =
                    [product |-> p, order |-> Cardinality(Gallery(p)),
                     main |-> \A j \in Gallery(p) : ~image[j].main]]
    /\ Wrote(e, p)
    /\ UNCHANGED <<category, product>>

\* set_product_image: image i goes to position sort, the others close up.
SetImage(e, p, i, main, sort) ==
    LET gallery == Gallery(p)
        others == gallery \ {i}
        place == Lesser(sort, Cardinality(others))
        chosen == IF main THEN i
                  ELSE IF others = {} THEN i ELSE First(others)
        PlaceOf(j) == IF j = i THEN place
                      ELSE Place(j, others) + (IF Place(j, others) < place THEN 0 ELSE 1)
    IN  /\ Holds(e, p) /\ i \in gallery
        /\ image' = [j \in Images |->
                        IF j \notin gallery THEN image[j]
                        ELSE [product |-> p, order |-> PlaceOf(j),
                              main |-> IF main \/ image[i].main THEN j = chosen
                                       ELSE image[j].main]]
        /\ image' # image
        /\ Wrote(e, p)
        /\ UNCHANGED <<category, product>>

\* delete_product_image.
DeleteImage(e, p, i) ==
    LET others == Gallery(p) \ {i}
    IN  /\ Holds(e, p) /\ i \in Gallery(p)
        /\ image' = [j \in Images |->
                        IF j = i THEN NoRow
                        ELSE IF j \notin others THEN image[j]
                        ELSE [product |-> p, order |-> Place(j, others),
                              main |-> IF image[i].main THEN j = First(others)
                                       ELSE image[j].main]]
        /\ Wrote(e, p)
        /\ UNCHANGED <<category, product>>

-----------------------------------------------------------------------------
(* The form of the bot for a new product. *)

OpenForm(e, c) ==
    /\ desk[e] = NoDesk /\ c \in Existing
    /\ desk' = [desk EXCEPT ![e] = [at |-> "form", category |-> c, sku |-> NoSku, photos |-> 0]]
    /\ UNCHANGED <<category, product, image>>

\* on_sku looks for the sku without the lock.
GiveSku(e, s) ==
    /\ IsAt(e, "form") /\ desk[e].sku = NoSku /\ SkuFree(s)
    /\ desk' = [desk EXCEPT ![e].sku = s]
    /\ UNCHANGED <<category, product, image>>

GivePhoto(e) ==
    /\ IsAt(e, "form") /\ desk[e].sku # NoSku /\ desk[e].photos < Cardinality(Images)
    /\ desk' = [desk EXCEPT ![e].photos = @ + 1]
    /\ UNCHANGED <<category, product, image>>

\* on_save_product: the product and its photographs in one transaction.  A
\* category that is gone, a sku that is taken: LeaveDesk, the form is cleared.
SaveForm(e, p, new) ==
    /\ IsAt(e, "form") /\ desk[e].photos > 0
    /\ Create(p, desk[e].category, desk[e].sku)
    /\ \A i \in new : image[i] = NoRow
    /\ Cardinality(new) = desk[e].photos
    /\ image' = [i \in Images |->
                    IF i \in new
                    THEN LET place == Cardinality({j \in new : j < i})
                         IN  [product |-> p, order |-> place, main |-> place = 0]
                    ELSE image[i]]
    /\ desk' = [desk EXCEPT ![e] = NoDesk]

CatalogNext ==
    \/ \E c \in Categories :
        \/ \E parent \in Categories \cup {NoParent} : CreateCategory(c, parent)
        \/ \E p \in Products, s \in Skus : CreateProduct(p, c, s)
    \/ \E e \in Editors :
        \/ LeaveDesk(e) \/ GivePhoto(e)
        \/ \E item \in Categories \cup Products : LookAt(e, item)
        \/ \E s \in Skus : GiveSku(e, s)
        \/ \E c \in Categories :
            \/ OpenForm(e, c)
            \/ ToggleCategory(e, c) \/ ChangeCategoryImage(e, c) \/ DeleteCategory(e, c)
            \/ \E parent \in Categories \cup {NoParent} : MoveCategory(e, c, parent)
            \/ \E p \in Products : MoveProduct(e, p, c)
        \/ \E p \in Products :
            \/ DeleteProduct(e, p)
            \/ \E s \in Skus : EditProduct(e, p, s)
            \/ \E i \in Images :
                \/ AddImage(e, p, i) \/ DeleteImage(e, p, i)
                \/ \E main \in BOOLEAN, sort \in 0 .. Cardinality(Images) :
                        SetImage(e, p, i, main, sort)
            \/ \E new \in SUBSET Images : SaveForm(e, p, new)

CatalogSpec == CatalogInit /\ [][CatalogNext]_catalogVars

-----------------------------------------------------------------------------
(* Properties. *)

\* No category is its own ancestor: no set of them has all its parents in it.
NoCycle ==
    \A S \in (SUBSET Existing) \ {{}} : \E c \in S : category[c].parent \notin S

\* What customers see is what has no hidden category above it.
PublicIsActiveAbove ==
    \A c \in Existing :
        c \in Public <=> category[c].active /\ \A d \in AncestorsFrom(category[c].parent) :
                                                    category[d].active

\* products_count is the number of the products.
CountsRight ==
    /\ \A c \in Existing : category[c].count = Cardinality(ProductsOf(c))
    /\ \A p \in Offered : product[p].category \in Existing

\* The photographs of a product are numbered from zero, one is the main one.
GalleriesTidy ==
    \A p \in Offered :
        LET gallery == Gallery(p)
        IN  /\ {image[i].order : i \in gallery} = 0 .. Cardinality(gallery) - 1
            /\ gallery # {} => Cardinality({i \in gallery : image[i].main}) = 1

\* The catalogue holds together, whatever old screens and half-filled forms
\* are saved in whatever order.
CatalogConsistent == NoCycle /\ PublicIsActiveAbove /\ CountsRight /\ GalleriesTidy
=============================================================================
