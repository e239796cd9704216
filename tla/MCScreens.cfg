CONSTANTS
    q1 = q1
    q2 = q2
    d = d
    Courses = {1, 2}
    Questions = {q1, q2}
    CourseOf <- CourseOfEach
    DomainOf <- OneDomain
    Quota <- OneQuestion
    Users = {u}
    Guest = guest
    None = none
    Names = {"practice", "mock", "dashboard"}
    MaxWrites = 2
SPECIFICATION Spec
INVARIANT ScopeIsCurrent
INVARIANT BadgeAgrees
INVARIANT HeadFits
