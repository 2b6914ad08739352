--------------------------- MODULE BackOfficeParts ---------------------------
(***************************************************************************)
(* The back office as a whole.  Its components share no table that the     *)
(* model keeps, so one behaviour is about one of them, chosen by `part',   *)
(* and the others stay where they start.                                   *)
(***************************************************************************)
EXTENDS PurchaseOrders, BackOffice, Customers, Accounts, Menu, Transformations,
        Establishment, Billing, OrderMoney, Inventory

CONSTANTS
    Parts,      \* the components in question
    NoCrew, NoTopic, NoMenu, NoCircle  \* what those that stay where they start work on

PartNames == {"purchases", "registers", "customers", "accounts", "menu",
              "transformations", "establishment", "billing", "money", "inventory"}

ASSUME PartsAssumption == Parts \subseteq PartNames

VARIABLE part

BackInit ==
    /\ part \in Parts
    /\ PurchaseInit /\ (part # "purchases" => crew = NoCrew)
    /\ RegistersInit(AllRegs) /\ (part # "registers" => reg = "zones")
    /\ CustomersInit /\ (part # "customers" => circle = NoCircle)
    /\ AccountsInit /\ (part # "accounts" => topic = NoTopic)
    /\ MenuInit /\ (part # "menu" => menu = NoMenu)
    /\ TransformationsInit
    /\ EstablishmentInit
    /\ BillingInit
    /\ MoneyInit /\ (part # "money" => dishes = << >>)
    /\ InventoryInit

PurchasesPart ==
    /\ part = "purchases"
    /\ PurchaseNext
    /\ UNCHANGED <<part, registerVars, customerVars, accountVars, menuVars,
                   transformationVars, establishmentVars, billingVars, moneyVars,
                   inventoryVars>>

RegistersPart ==
    /\ part = "registers"
    /\ RegistersNext
    /\ UNCHANGED <<part, purchaseVars, customerVars, accountVars, menuVars,
                   transformationVars, establishmentVars, billingVars, moneyVars,
                   inventoryVars>>

CustomersPart ==
    /\ part = "customers"
    /\ CustomersNext
    /\ UNCHANGED <<part, purchaseVars, registerVars, accountVars, menuVars,
                   transformationVars, establishmentVars, billingVars, moneyVars,
                   inventoryVars>>

AccountsPart ==
    /\ part = "accounts"
    /\ AccountsNext
    /\ UNCHANGED <<part, purchaseVars, registerVars, customerVars, menuVars,
                   transformationVars, establishmentVars, billingVars, moneyVars,
                   inventoryVars>>

MenuPart ==
    /\ part = "menu"
    /\ MenuNext
    /\ UNCHANGED <<part, purchaseVars, registerVars, customerVars, accountVars,
                   transformationVars, establishmentVars, billingVars, moneyVars,
                   inventoryVars>>

TransformationsPart ==
    /\ part = "transformations"
    /\ TransformationsNext
    /\ UNCHANGED <<part, purchaseVars, registerVars, customerVars, accountVars,
                   menuVars, establishmentVars, billingVars, moneyVars,
                   inventoryVars>>

EstablishmentPart ==
    /\ part = "establishment"
    /\ EstablishmentNext
    /\ UNCHANGED <<part, purchaseVars, registerVars, customerVars, accountVars,
                   menuVars, transformationVars, billingVars, moneyVars,
                   inventoryVars>>

BillingPart ==
    /\ part = "billing"
    /\ BillingNext
    /\ UNCHANGED <<part, purchaseVars, registerVars, customerVars, accountVars,
                   menuVars, transformationVars, establishmentVars, moneyVars,
                   inventoryVars>>

MoneyPart ==
    /\ part = "money"
    /\ MoneyNext
    /\ UNCHANGED <<part, purchaseVars, registerVars, customerVars, accountVars,
                   menuVars, transformationVars, establishmentVars, billingVars,
                   inventoryVars>>

InventoryPart ==
    /\ part = "inventory"
    /\ InventoryNext
    /\ UNCHANGED <<part, purchaseVars, registerVars, customerVars, accountVars,
                   menuVars, transformationVars, establishmentVars, billingVars,
                   moneyVars>>

BackNext ==
    \/ PurchasesPart
    \/ RegistersPart
    \/ CustomersPart
    \/ AccountsPart
    \/ MenuPart
    \/ TransformationsPart
    \/ EstablishmentPart
    \/ BillingPart
    \/ MoneyPart
    \/ InventoryPart

BackVars == <<part, purchaseVars, registerVars, customerVars, accountVars, menuVars,
              transformationVars, establishmentVars, billingVars, moneyVars,
              inventoryVars>>

BackSpec == BackInit /\ [][BackNext]_BackVars

\* Type correctness of the component that the behaviour is about.
BackOfficeTypeOK ==
    /\ part = "purchases"       => PurchaseTypeOK
    /\ part = "registers"       => RegistersTypeOK
    /\ part = "customers"       => CustomersTypeOK
    /\ part = "accounts"        => AccountsTypeOK
    /\ part = "menu"            => MenuTypeOK
    /\ part = "transformations" => TransformationsTypeOK
    /\ part = "establishment"   => EstablishmentTypeOK
    /\ part = "billing"         => BillingTypeOK
    /\ part = "money"           => MoneyTypeOK
    /\ part = "inventory"       => InventoryTypeOK
=============================================================================
