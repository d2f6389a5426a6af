\* Answering "how many" with less than one, then choosing at another provider.
SPECIFICATION Spec
CONSTANTS
    u1 = u1
    l1 = l1
    l2 = l2
    ham = ham
    taco = taco
    soup = soup
    Users = {u1}
    Handlers = {1}
    Locations = {l1, l2}
    Items = {ham, taco, soup}
    MenuOf <- Menus
    MaxMealsPerDay <- TwoMeals
    MaxChoices = 1
    MaxNearby = 2
    Numbers = {1, 2}
    None = None
    MaxPartials = 2
    MaxOrders = 2
    MaxSelected = 3
INVARIANTS PreviousChoicesCleared
CHECK_DEADLOCK FALSE
