SPECIFICATION SubscribeSpec
CONSTANTS
    Accounts = {"student", "admin"}
    Role <- MCRole
    StudentOf <- MCStudentOf
    Undefined = Undefined
    PlansOnOffer = {p1}
    CategoriesOnOffer = {k1}
    MaxRows = 1
PROPERTY
    StudentsCanSubscribe
