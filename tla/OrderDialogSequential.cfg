\* Messages of the user are handled one after the other.
SPECIFICATION Spec
CONSTANTS
    u1 = u1
    l1 = l1
    l2 = l2
    ham = ham
    taco = taco
    soup = soup
    Users = {u1}
    Handlers = {1}
    Locations = {l1, l2}
    Items = {ham, taco, soup}
    MenuOf <- Menus
    MaxMealsPerDay <- TwoMeals
    MaxChoices = 1
    MaxNearby = 2
    Numbers = {1, 2, 3}
    None = None
    MaxPartials = 3
    MaxOrders = 3
    MaxSelected = 3
INVARIANTS TypeOK PhaseHasItsData OrdersAreComplete OneDialogPerUser OrderIsAsConfirmed DailyAllowance
CHECK_DEADLOCK FALSE
