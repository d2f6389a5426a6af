\* Two messages of the user can be in progress at once.
SPECIFICATION Spec
CONSTANTS
    u1 = u1
    l1 = l1
    l2 = l2
    ham = ham
    taco = taco
    soup = soup
    Users = {u1}
    Handlers = {1, 2}
    Locations = {l1}
    Items = {ham, taco, soup}
    MenuOf <- Menus
    MaxMealsPerDay <- OneMeal
    MaxChoices = 1
    MaxNearby = 2
    Numbers = {1}
    None = None
    MaxPartials = 2
    MaxOrders = 2
    MaxSelected = 1
INVARIANTS OneOrderPerDialog
CHECK_DEADLOCK FALSE
